---- MODULE Spec2Model ----
(***************************************************************************)
(* Verification pipeline of Portfolio_Manager: tools/repo_tools.py         *)
(* (verify_repo and its helpers) on top of tools/fs_tools.py (shell_run).  *)
(*                                                                         *)
(* Strings are sequences of one-character strings, so that the regular     *)
(* expression, strip, rstrip and split of _repo_key_from_url are computed  *)
(* character by character as Python computes them.                         *)
(***************************************************************************)
EXTENDS Integers, Sequences, FiniteSets, TLC

(***************************************************************************)
(* Python string primitives                                                *)
(***************************************************************************)
Whitespace == {" ", "\t", "\n"}

\* s[a..b] as a sequence (empty when a > b)
Slice(s, a, b) == [k \in 1..(IF b >= a THEN b - a + 1 ELSE 0) |-> s[a + k - 1]]

\* number of leading characters of s that belong to chars
RECURSIVE LeadIn(_, _)
LeadIn(s, chars) ==
    IF s = <<>> \/ s[1] \notin chars THEN 0 ELSE 1 + LeadIn(Tail(s), chars)

\* number of trailing characters of s that belong to chars
RECURSIVE TrailIn(_, _)
TrailIn(s, chars) ==
    IF s = <<>> \/ s[Len(s)] \notin chars THEN 0
    ELSE 1 + TrailIn(Slice(s, 1, Len(s) - 1), chars)

\* str.rstrip(chars): drops every trailing character that is in the set chars
RStrip(s, chars) == Slice(s, 1, Len(s) - TrailIn(s, chars))

\* str.strip(): drops leading and trailing whitespace
Strip(s) ==
    LET t == RStrip(s, Whitespace)
    IN  Slice(t, LeadIn(t, Whitespace) + 1, Len(t))

\* re.split(r"[/:]", s): the pieces between separator characters, empty ones kept
RECURSIVE SplitOn(_, _)
SplitOn(s, seps) ==
    LET n == LeadIn(s, {c \in {s[k] : k \in 1..Len(s)} : c \notin seps})
    IN  IF n = Len(s) THEN <<s>>
        ELSE <<Slice(s, 1, n)>> \o SplitOn(Slice(s, n + 2, Len(s)), seps)

\* s has the literal lit at position p
HasAt(s, p, lit) ==
    /\ p >= 1
    /\ p + Len(lit) - 1 <= Len(s)
    /\ \A k \in 1..Len(lit) : s[p + k - 1] = lit[k]

GithubCom == <<"g", "i", "t", "h", "u", "b", ".", "c", "o", "m">>
DotGit == <<".", "g", "i", "t">>
Underscores == <<"_", "_">>
UnknownRepo == <<"u", "n", "k", "n", "o", "w", "n", "_", "_", "r", "e", "p", "o">>

(***************************************************************************)
(* _repo_key_from_url                                                      *)
(***************************************************************************)
\* The match of  github\.com[/:]([^/]+)/([^/.]+)(?:\.git)?$  anchored at p.
\* Group 1 cannot hold "/", so it is the run up to the next "/"; group 2 is
\* a run without "/" and "." that must be followed by the end of the string
\* or by ".git" and the end, so no backtracking yields another match.
MatchAt(s, p) ==
    LET q   == p + Len(GithubCom)              \* position of [/:]
        g1s == q + 1
        n1  == LeadIn(Slice(s, g1s, Len(s)), {c \in {s[k] : k \in 1..Len(s)} : c # "/"})
        g2s == g1s + n1 + 1
        n2  == LeadIn(Slice(s, g2s, Len(s)),
                      {c \in {s[k] : k \in 1..Len(s)} : c \notin {"/", "."}})
        rest == Slice(s, g2s + n2, Len(s))
    IN  IF /\ HasAt(s, p, GithubCom)
           /\ q <= Len(s) /\ s[q] \in {"/", ":"}
           /\ n1 >= 1
           /\ g1s + n1 <= Len(s) /\ s[g1s + n1] = "/"
           /\ n2 >= 1
           /\ rest \in {<<>>, DotGit}
        THEN [found |-> TRUE, owner |-> Slice(s, g1s, g1s + n1 - 1),
              repo |-> Slice(s, g2s, g2s + n2 - 1)]
        ELSE [found |-> FALSE, owner |-> <<>>, repo |-> <<>>]

\* re.search: the match at the leftmost position that has one
ReSearch(s) ==
    LET hits == {p \in 1..Len(s) : MatchAt(s, p).found}
    IN  IF hits = {} THEN [found |-> FALSE, owner |-> <<>>, repo |-> <<>>]
        ELSE MatchAt(s, CHOOSE p \in hits : \A p2 \in hits : p <= p2)

_repo_key_from_url(repo_url) ==
    LET m == ReSearch(Strip(repo_url))
        parts == SplitOn(RStrip(Strip(repo_url), {".", "g", "i", "t"}), {"/", ":"})
    IN  IF ~m.found
        THEN IF Len(parts) >= 2
             THEN parts[Len(parts) - 1] \o Underscores \o parts[Len(parts)]
             ELSE UnknownRepo
        ELSE m.owner \o Underscores \o m.repo


(***************************************************************************)
(* Inputs of the model                                                     *)
(***************************************************************************)
\* "https://github.com/o/r": a repository that exists
UrlA == <<"h", "t", "t", "p", "s", ":", "/", "/", "g", "i", "t", "h", "u", "b", ".", "c", "o", "m", "/", "o", "/", "r">>
\* "git@github.com:o/r.git": the same repository in SSH form
UrlAGit == <<"g", "i", "t", "@", "g", "i", "t", "h", "u", "b", ".", "c", "o", "m", ":", "o", "/", "r", ".", "g", "i", "t">>
\* "https://github.com/o/x": no such repository
UrlGone == <<"h", "t", "t", "p", "s", ":", "/", "/", "g", "i", "t", "h", "u", "b", ".", "c", "o", "m", "/", "o", "/", "x">>

\* "https://github.com/o/lib": a python package without tests
UrlLib == <<"h", "t", "t", "p", "s", ":", "/", "/", "g", "i", "t", "h", "u", "b", ".", "c", "o", "m", "/", "o", "/", "l", "i", "b">>
\* "https://github.com/o/site": a jekyll site
UrlSite == <<"h", "t", "t", "p", "s", ":", "/", "/", "g", "i", "t", "h", "u", "b", ".", "c", "o", "m", "/", "o", "/", "s", "i", "t", "e">>
\* "https://github.com/o/notes": a repository of text files
UrlNotes == <<"h", "t", "t", "p", "s", ":", "/", "/", "g", "i", "t", "h", "u", "b", ".", "c", "o", "m", "/", "o", "/", "n", "o", "t", "e", "s">>

\* "x" and "x/y": no URL at all
UrlX == <<"x">>
UrlXY == <<"x", "/", "y">>

Urls == {UrlA, UrlAGit, UrlGone}
ReachableUrls == {UrlA, UrlAGit, UrlLib, UrlSite, UrlNotes}

\* Python's None, as a value no string equals
None == <<"<None>">>
EmptyStr == <<>>
\* what is no repository URL: the empty string, "x" and "x/y"
MalformedUrls == {EmptyStr, UrlX, UrlXY}
\* an explicit sandbox_key, "o__x", which is also the key derived from UrlGone
KeyOX == <<"o", "_", "_", "x">>
SandboxKeyArgs == {None, EmptyStr, KeyOX}
\* ref is read first at line 154
Refs == {"main"}

Inputs == [repo_url : Urls, ref : Refs, sandbox_key : SandboxKeyArgs]

\* line 124: key = sandbox_key or _repo_key_from_url(repo_url)
\* (None and "" are both falsy)
KeyOf(a) ==
    IF a.sandbox_key \in {None, EmptyStr}
    THEN _repo_key_from_url(a.repo_url)
    ELSE a.sandbox_key

\* one repository of each kind, each under the key derived from its URL
PlanUrls == {UrlA, UrlLib, UrlSite, UrlNotes}
PlanInputs == [repo_url : PlanUrls, ref : Refs, sandbox_key : {None}]

\* calls with something that is no repository URL
MalformedInputs == [repo_url : MalformedUrls, ref : Refs, sandbox_key : {None}]
AllInputs == Inputs \cup PlanInputs \cup MalformedInputs

\* the key of every input of the model, computed once (merging in the empty
\* function makes the table an enumerated one)
KeyTable == [a \in AllInputs |-> KeyOf(a)] @@ [a \in {} |-> None]
Keys == {KeyTable[a] : a \in AllInputs}
\* the keys whose sandbox directory the caller may have filled
SandboxedKeys == {KeyTable[a] : a \in Inputs}

\* the callers that can be inside verify_repo; Spec has one of them, inv1,
\* calling again and again
Invocations == {"inv1", "inv2"}

(***************************************************************************)
(* shell_run (tools/fs_tools.py): the result dictionary of each outcome of *)
(* subprocess.run. A dictionary is a record; its keys are its DOMAIN.     *)
(***************************************************************************)
Outcomes == {"exit0", "exit128", "notfound", "timeout", "oserror"}

ReturnCode(outcome) == IF outcome = "exit0" THEN 0 ELSE 128

\* what a process has written to stdout or stderr: the number of characters
\* kept, and the number of characters a truncation marker says were dropped
\* (0: there is no marker)
Stream(n) == [chars |-> n, dropped |-> 0]
\* the few characters git writes
GitStdout == Stream(1)
GitStderr == Stream(2)

\* a shell_run without the except clause for the timeout
shell_run_Unhandled(cmd, cwd, outcome, out, err) ==
    CASE outcome \in {"exit0", "exit128"} ->
            [ok |-> ReturnCode(outcome) = 0, returncode |-> ReturnCode(outcome),
             stdout |-> out, stderr |-> err,
             cmd |-> cmd, cwd |-> cwd, shell |-> FALSE]
      [] outcome = "notfound" ->
            [ok |-> FALSE, error |-> "FileNotFoundError",
             cmd |-> cmd, cwd |-> cwd, hint |-> "Executable not found on PATH"]
      [] outcome = "timeout" -> [raised |-> "TimeoutExpired"]
      [] OTHER ->
            [ok |-> FALSE, error |-> "OSError", cmd |-> cmd, cwd |-> cwd]

\* lines 75-120: out and err are what the process wrote when it completed
shell_run(cmd, cwd, outcome, out, err) ==
    CASE outcome \in {"exit0", "exit128"} ->
            [ok |-> ReturnCode(outcome) = 0, returncode |-> ReturnCode(outcome),
             stdout |-> out, stderr |-> err,
             cmd |-> cmd, cwd |-> cwd, shell |-> FALSE]
      [] outcome = "notfound" ->
            [ok |-> FALSE, error |-> "FileNotFoundError",
             cmd |-> cmd, cwd |-> cwd, hint |-> "Executable not found on PATH"]
      [] outcome = "timeout" ->
            [ok |-> FALSE, error |-> "TimeoutExpired", cmd |-> cmd, cwd |-> cwd]
      [] OTHER ->
            [ok |-> FALSE, error |-> "OSError", cmd |-> cmd, cwd |-> cwd]

\* d[k] of a Python dictionary: defined when k is a key, KeyError otherwise
HasKey(d, k) == k \in DOMAIN d

(***************************************************************************)
(* Directory trees: the overlay directory and the working copy.  A tree    *)
(* maps each relative path (one or two components) to what is there.       *)
(***************************************************************************)
NumContents == 2
Names == {"a", "b"}
TopPaths == {<<n>> : n \in Names}
SubPaths == {<<n, m>> : n \in Names, m \in Names}
Paths == TopPaths \cup SubPaths

NoNode == [kind |-> "none", content |-> 0]
DirNode == [kind |-> "dir", content |-> 0]
FileNode(c) == [kind |-> "file", content |-> c]

\* a path below a directory that is there; directories one level deep
WellFormed(t) ==
    \A q \in SubPaths :
        /\ t[q].kind # "dir"
        /\ t[q].kind = "file" => t[<<q[1]>>].kind = "dir"

TreesOver(contents) ==
    {t \in [Paths -> {NoNode, DirNode} \cup {FileNode(c) : c \in contents}] :
        WellFormed(t)}

\* what the caller puts in an overlay: contents 1..NumContents
OverlayTrees == TreesOver(1..NumContents)
\* what a checkout leaves in the working copy: every file has content 0
RepoTrees == TreesOver({0})

EmptyTree == [q \in Paths |-> NoNode]
FilesOf(t) == {q \in Paths : t[q].kind = "file"}

\* an overlay with a top-level file and a nested file
SampleOverlay ==
    [q \in Paths |-> CASE q = <<"a">> -> FileNode(1)
                       [] q = <<"b">> -> DirNode
                       [] q = <<"b", "a">> -> FileNode(2)
                       [] OTHER -> NoNode]

(***************************************************************************)
(* State                                                                   *)
(***************************************************************************)
VARIABLES
    verify_root,    \* ./_verify exists
    sandbox_root,   \* ./_sandbox exists
    run_dir,        \* run_dir[k]: ./_verify/<k> exists
    repo_dir,       \* repo_dir[k]: what is at ./_verify/<k>/repo
    sandbox,        \* sandbox[k]: ./_sandbox/<k>/overlay and ./_sandbox/<k>/patch.diff
    pc,             \* pc[i]: the line invocation i of verify_repo is at
    args,           \* args[i]: its arguments
    steps,          \* steps[i]: its local list steps
    r,              \* r[i]: its local r (r1 on the fetch branch)
    cmds,           \* cmds[i]: the external commands it has run, in order
    result,         \* result[i]: how it ended: a returned report or an exception
    ov,             \* one call of _copy_overlay on its own
    call,           \* one call of a helper without side effects on its own
    main_agent,     \* a MainAgent object and the call of its message method
    telegram,       \* the bot's updates, memory/update_id.txt and telegram_get_response
    github          \* a repository on GitHub and one call of github_propose_change

pipelineVars ==
    <<verify_root, sandbox_root, run_dir, repo_dir, sandbox, pc, args, steps, r,
      cmds, result>>
serviceVars == <<main_agent, telegram, github>>
vars == <<pipelineVars, ov, call, serviceVars>>

\* ./_verify/<k>/repo: nothing, a directory without .git, a .git left by an
\* interrupted clone, or a complete clone of origin
NoRepo == [state |-> "absent", origin |-> None]
HasDotGit(k) == repo_dir[k].state \in {"partial", "clone"}

NoSandbox == [overlay_exists |-> FALSE, overlay |-> EmptyTree, patch_exists |-> FALSE]
\* what the caller has put under ./_sandbox/<k>: nothing, or an overlay and a patch
FullSandbox == [overlay_exists |-> TRUE, overlay |-> SampleOverlay, patch_exists |-> TRUE]
SandboxStates == {NoSandbox, FullSandbox}

NoArgs == [repo_url |-> None, ref |-> "main", sandbox_key |-> None]
NoR == [none |-> TRUE]
NoResult == [kind |-> "none", exc |-> "", report |-> NoR]
OvIdle == [phase |-> "idle"]
CallIdle == [phase |-> "idle"]

PipelineInit ==
    /\ verify_root = FALSE
    /\ sandbox \in [Keys -> SandboxStates]
    /\ \A k \in Keys \ SandboxedKeys : sandbox[k] = NoSandbox
    /\ sandbox_root = (\E k \in Keys : sandbox[k] # NoSandbox)
    /\ run_dir = [k \in Keys |-> FALSE]
    /\ repo_dir = [k \in Keys |-> NoRepo]
    /\ pc = [i \in Invocations |-> "idle"]
    /\ args = [i \in Invocations |-> NoArgs]
    /\ steps = [i \in Invocations |-> <<>>]
    /\ r = [i \in Invocations |-> NoR]
    /\ cmds = [i \in Invocations |-> <<>>]
    /\ result = [i \in Invocations |-> NoResult]

\* no MainAgent, no bot and no GitHub call
AgentIdle == [phase |-> "idle"]
TelegramIdle == [phase |-> "idle"]
GithubIdle == [phase |-> "idle"]
ServicesIdle == main_agent = AgentIdle /\ telegram = TelegramIdle /\ github = GithubIdle

Init == PipelineInit /\ ov = OvIdle /\ call = CallIdle /\ ServicesIdle

(***************************************************************************)
(* verify_repo, lines 124-151.  pc[i] names the line invocation i is at.   *)
(* The first steps.append of either branch (line 143, line 149) reads      *)
(* r["exit_code"], a key no result of shell_run has, so an invocation      *)
(* never gets to "line154": OnlyFirstStep below states it, and lines       *)
(* 153-268 have no action here because no behaviour executes them.         *)
(***************************************************************************)
key(i) == KeyTable[args[i]]

\* an exception that sends the invocation back to line 138 to try again
Raise_Retries(i, exc) ==
    /\ pc' = [pc EXCEPT ![i] = "line138"]
    /\ UNCHANGED result

\* an exception leaves verify_repo: the invocation ends without a report
Raise(i, exc) ==
    /\ pc' = [pc EXCEPT ![i] = "raised"]
    /\ result' = [result EXCEPT ![i] = [kind |-> "exception", exc |-> exc, report |-> NoR]]

\* return {...}: the invocation ends with a report
Return(i, report) ==
    /\ pc' = [pc EXCEPT ![i] = "returned"]
    /\ result' = [result EXCEPT ![i] = [kind |-> "report", exc |-> "", report |-> report]]

\* the report of the failure returns (lines 145, 151)
FailureReport(i, st, res) ==
    [ok |-> FALSE, key |-> key(i), repo_dir |-> <<"_verify", key(i), "repo">>,
     steps |-> st, stderr_tail |-> res.stderr, stdout_tail |-> res.stdout]

\* a setup that also creates the overlay directory of the key
SandboxAfterSetup_MakesOverlay(k) == [sandbox EXCEPT ![k].overlay_exists = TRUE]

\* lines 131-133 create ./_verify, ./_sandbox and ./_verify/<k>, and nothing
\* under ./_sandbox
SandboxAfterSetup(k) == sandbox

\* lines 124-135: the paths, the three _ensure_dir calls, steps = []
Invoke(i, a) ==
    /\ pc[i] \in {"idle", "raised", "returned"}
    /\ args' = [args EXCEPT ![i] = a]
    /\ verify_root' = TRUE
    /\ sandbox_root' = TRUE
    /\ run_dir' = [run_dir EXCEPT ![KeyTable[a]] = TRUE]
    /\ steps' = [steps EXCEPT ![i] = <<>>]
    /\ r' = [r EXCEPT ![i] = NoR]
    /\ cmds' = [cmds EXCEPT ![i] = <<>>]
    /\ result' = [result EXCEPT ![i] = NoResult]
    /\ sandbox' = SandboxAfterSetup(KeyTable[a])
    /\ pc' = [pc EXCEPT ![i] = "line138"]
    /\ UNCHANGED <<repo_dir, ov, call, serviceVars>>

\* a removal that clears the whole verification root
RemoveTree_WholeRoot(k) == [kk \in Keys |-> NoRepo]

\* shutil.rmtree(repo_dir, ignore_errors=True), line 141
RemoveTree(k) == [repo_dir EXCEPT ![k] = NoRepo]

\* a test that takes the branches the wrong way round
Detect_Inverted(i) ==
    /\ pc[i] = "line138"
    /\ pc' = [pc EXCEPT ![i] = IF HasDotGit(key(i)) THEN "line140" ELSE "line148"]
    /\ UNCHANGED <<verify_root, sandbox_root, run_dir, repo_dir, sandbox, args, steps, r,
                   cmds, result, ov, call, serviceVars>>

\* a test that waits while another invocation is working under the same key
Detect_Locked(i) ==
    /\ pc[i] = "line138"
    /\ \A j \in Invocations \ {i} :
           IF pc[j] \in {"idle", "line138", "raised", "returned"}
           THEN TRUE
           ELSE key(j) # key(i)
    /\ pc' = [pc EXCEPT ![i] = IF HasDotGit(key(i)) THEN "line148" ELSE "line140"]
    /\ UNCHANGED <<verify_root, sandbox_root, run_dir, repo_dir, sandbox, args, steps, r,
                   cmds, result, ov, call, serviceVars>>

\* line 138: is there a repo/.git
Detect(i) ==
    /\ pc[i] = "line138"
    /\ pc' = [pc EXCEPT ![i] = IF HasDotGit(key(i)) THEN "line148" ELSE "line140"]
    /\ UNCHANGED <<verify_root, sandbox_root, run_dir, repo_dir, sandbox, args, steps, r,
                   cmds, result, ov, call, serviceVars>>

\* lines 140-141: whatever is at repo_dir by now is removed (rmtree with
\* ignore_errors=True: what cannot be removed stays)
RemoveRepoDir(i) ==
    /\ pc[i] = "line140"
    /\ IF repo_dir[key(i)].state # "absent"
       THEN \E removed \in BOOLEAN :
                repo_dir' = IF removed THEN RemoveTree(key(i)) ELSE repo_dir
       ELSE UNCHANGED repo_dir
    /\ pc' = [pc EXCEPT ![i] = "line142"]
    /\ UNCHANGED <<verify_root, sandbox_root, run_dir, sandbox, args, steps, r, cmds,
                   result, ov, call, serviceVars>>

\* subprocess.run raises FileNotFoundError when cwd is not there
CwdExists(cwd, k) ==
    IF cwd = "run_dir" THEN run_dir[k] ELSE repo_dir[k].state # "absent"

\* what git clone <url> repo can do in run_dir: it succeeds only for a
\* repository that exists and a target that is not in the way; killed by the
\* timeout it leaves nothing, a directory, or a directory with a .git
CloneOutcomes(k, url) ==
    {o \in Outcomes :
        /\ o = "exit0" => url \in ReachableUrls /\ repo_dir[k].state = "absent"
        /\ ~CwdExists("run_dir", k) => o = "notfound"}

CloneLeaves(k, url, outcome) ==
    CASE outcome = "exit0" -> {[state |-> "clone", origin |-> url]}
      [] outcome = "timeout" /\ repo_dir[k].state = "absent" ->
            {NoRepo, [state |-> "nogit", origin |-> None],
             [state |-> "partial", origin |-> url]}
      [] OTHER -> {repo_dir[k]}

\* line 142: r = shell_run(["git", "clone", repo_url, "repo"], cwd=run_dir, ...)
RunClone(i, outcome) ==
    /\ pc[i] = "line142"
    /\ outcome \in CloneOutcomes(key(i), args[i].repo_url)
    /\ \E left \in CloneLeaves(key(i), args[i].repo_url, outcome) :
           repo_dir' = [repo_dir EXCEPT ![key(i)] = left]
    /\ r' = [r EXCEPT ![i] = shell_run("git clone", "run_dir", outcome, GitStdout, GitStderr)]
    /\ cmds' = [cmds EXCEPT ![i] = Append(@, "clone")]
    /\ pc' = [pc EXCEPT ![i] = "line143"]
    /\ UNCHANGED <<verify_root, sandbox_root, run_dir, sandbox, args, steps, result,
                   ov, call, serviceVars>>

\* steps.append({"name": name, "exit": r["exit_code"]}); if not r["ok"]: return
\* {"ok": False, ..., "stderr_tail": r["stderr"], "stdout_tail": r["stdout"]}
\* (lines 143-145 and 149-151); then on to the checkout at line 154
AppendStep(i, name) ==
    IF ~HasKey(r[i], "exit_code")
    THEN Raise(i, "KeyError: 'exit_code'") /\ UNCHANGED steps
    ELSE LET st == Append(steps[i], [name |-> name, exit |-> r[i].exit_code])
         IN  /\ steps' = [steps EXCEPT ![i] = st]
             /\ IF ~r[i].ok
                THEN IF ~HasKey(r[i], "stderr")
                     THEN Raise(i, "KeyError: 'stderr'")
                     ELSE IF ~HasKey(r[i], "stdout")
                          THEN Raise(i, "KeyError: 'stdout'")
                          ELSE Return(i, FailureReport(i, st, r[i]))
                ELSE /\ pc' = [pc EXCEPT ![i] = "line154"]
                     /\ UNCHANGED result

\* lines 143-145
AppendClone(i) ==
    /\ pc[i] = "line143"
    /\ AppendStep(i, "clone")
    /\ UNCHANGED <<verify_root, sandbox_root, run_dir, repo_dir, sandbox, args, r,
                   cmds, ov, call, serviceVars>>

\* what git fetch --all --prune can do in repo_dir: it succeeds only when the
\* remote the clone recorded can be reached
FetchOutcomes(k) ==
    {o \in Outcomes :
        /\ o = "exit0" => repo_dir[k].origin \in ReachableUrls
        /\ ~CwdExists("repo_dir", k) => o = "notfound"}

\* a fetch that goes to the repo_url of the call and records it as the remote
RunFetch_UsesUrl(i, outcome) ==
    /\ pc[i] = "line148"
    /\ outcome = "exit0" => args[i].repo_url \in ReachableUrls
    /\ ~CwdExists("repo_dir", key(i)) => outcome = "notfound"
    /\ repo_dir' = [repo_dir EXCEPT ![key(i)].origin = args[i].repo_url]
    /\ r' = [r EXCEPT ![i] = shell_run("git fetch", "repo_dir", outcome, GitStdout, GitStderr)]
    /\ cmds' = [cmds EXCEPT ![i] = Append(@, "fetch")]
    /\ pc' = [pc EXCEPT ![i] = "line149"]
    /\ UNCHANGED <<verify_root, sandbox_root, run_dir, sandbox, args, steps,
                   result, ov, call, serviceVars>>

\* line 148: r1 = shell_run(["git", "fetch", "--all", "--prune"], cwd=repo_dir, ...)
RunFetch(i, outcome) ==
    /\ pc[i] = "line148"
    /\ outcome \in FetchOutcomes(key(i))
    /\ r' = [r EXCEPT ![i] = shell_run("git fetch", "repo_dir", outcome, GitStdout, GitStderr)]
    /\ cmds' = [cmds EXCEPT ![i] = Append(@, "fetch")]
    /\ pc' = [pc EXCEPT ![i] = "line149"]
    /\ UNCHANGED <<verify_root, sandbox_root, run_dir, repo_dir, sandbox, args, steps,
                   result, ov, call, serviceVars>>

\* lines 149-151
AppendFetch(i) ==
    /\ pc[i] = "line149"
    /\ AppendStep(i, "fetch")
    /\ UNCHANGED <<verify_root, sandbox_root, run_dir, repo_dir, sandbox, args, r,
                   cmds, ov, call, serviceVars>>

\* one caller: repo_verify calls verify_repo and waits for it to end
Next ==
    \/ \E a \in Inputs : Invoke("inv1", a)
    \/ Detect("inv1")
    \/ RemoveRepoDir("inv1")
    \/ \E o \in Outcomes : RunClone("inv1", o)
    \/ AppendClone("inv1")
    \/ \E o \in Outcomes : RunFetch("inv1", o)
    \/ AppendFetch("inv1")

Spec == Init /\ [][Next]_vars

\* the same caller, verifying one repository of each kind
PlanInit == Init /\ sandbox = [k \in Keys |-> NoSandbox]

PlanNext ==
    \/ \E a \in PlanInputs : Invoke("inv1", a)
    \/ Detect("inv1")
    \/ RemoveRepoDir("inv1")
    \/ \E o \in Outcomes : RunClone("inv1", o)
    \/ AppendClone("inv1")
    \/ \E o \in Outcomes : RunFetch("inv1", o)
    \/ AppendFetch("inv1")

SpecPlans == PlanInit /\ [][PlanNext]_vars

\* the same caller, passing what is no repository URL
MalformedNext ==
    \/ \E a \in MalformedInputs : Invoke("inv1", a)
    \/ Detect("inv1")
    \/ RemoveRepoDir("inv1")
    \/ \E o \in Outcomes : RunClone("inv1", o)
    \/ AppendClone("inv1")
    \/ \E o \in Outcomes : RunFetch("inv1", o)
    \/ AppendFetch("inv1")

SpecMalformed == PlanInit /\ [][MalformedNext]_vars

\* two callers at once (two threads calling repo_verify), each verifying the
\* repository under the derived key or under the explicit one
ConcInputs == [repo_url : {UrlA}, ref : Refs, sandbox_key : {None, KeyOX}]

ConcInit == Init /\ sandbox = [k \in Keys |-> NoSandbox]

ConcNext ==
    \E i \in Invocations :
        \/ \E a \in ConcInputs : Invoke(i, a)
        \/ Detect(i)
        \/ RemoveRepoDir(i)
        \/ \E o \in Outcomes : RunClone(i, o)
        \/ AppendClone(i)
        \/ \E o \in Outcomes : RunFetch(i, o)
        \/ AppendFetch(i)

SpecConcurrent == ConcInit /\ [][ConcNext]_vars

(***************************************************************************)
(* _copy_overlay, lines 41-58, one file of the walk at a time              *)
(***************************************************************************)
DirOf(q) == IF Len(q) = 1 THEN <<>> ELSE <<q[1]>>

\* os.walk is top-down: the files of overlay_dir itself first, then the files
\* of one subdirectory after the other; the order within each listing is the
\* operating system's
WalkNext(todo, walk) ==
    IF \E g \in todo : DirOf(g) = walk
    THEN {f \in todo : DirOf(f) = walk}
    ELSE {f \in todo : DirOf(f) # <<>>}

\* _ensure_dir(os.path.dirname(dst)): os.makedirs(..., exist_ok=True) creates
\* the directory, accepts a directory and raises on a file in its place
EnsureDirRaises(repo, f) == Len(f) = 2 /\ repo[<<f[1]>>].kind = "file"
EnsureDir(repo, f) ==
    IF Len(f) = 2 /\ repo[<<f[1]>>].kind = "none"
    THEN [repo EXCEPT ![<<f[1]>>] = DirNode]
    ELSE repo

\* shutil.copy2(src, dst): when dst is a directory the file goes into it
\* under the name of src; otherwise dst is created or overwritten
Copy2Target(repo, f) == IF repo[f].kind = "dir" THEN <<f[1], f[Len(f)]>> ELSE f

\* a copy that keeps a file that is already there
Copy2_KeepsExisting(repo, node, f) ==
    IF repo[Copy2Target(repo, f)].kind = "file"
    THEN repo
    ELSE [repo EXCEPT ![Copy2Target(repo, f)] = node]

Copy2(repo, node, f) == [repo EXCEPT ![Copy2Target(repo, f)] = node]

\* lines 46-49
CopyBegin ==
    /\ ov.phase = "called"
    /\ ov' = IF ~ov.overlay_exists
             THEN [ov EXCEPT !.phase = "returned"]
             ELSE [ov EXCEPT !.phase = "walking", !.todo = FilesOf(ov.overlay)]
    /\ UNCHANGED <<pipelineVars, call, serviceVars>>

\* lines 50-57, for one file of the walk
CopyFile ==
    /\ ov.phase = "walking"
    /\ \E f \in WalkNext(ov.todo, ov.walk) :
           ov' = IF EnsureDirRaises(ov.repo, f)
                 THEN [ov EXCEPT !.phase = "raised", !.walk = DirOf(f)]
                 ELSE [ov EXCEPT !.repo = Copy2(EnsureDir(ov.repo, f), ov.overlay[f], f),
                                 !.todo = @ \ {f},
                                 !.walk = DirOf(f),
                                 !.copied = @ + 1]
    /\ UNCHANGED <<pipelineVars, call, serviceVars>>

\* line 58
CopyReturn ==
    /\ ov.phase = "walking"
    /\ ov.todo = {}
    /\ ov' = [ov EXCEPT !.phase = "returned"]
    /\ UNCHANGED <<pipelineVars, call, serviceVars>>

\* a call _copy_overlay(overlay_dir, repo_dir) on any overlay and working copy
OverlayInit ==
    /\ PipelineInit
    /\ sandbox = [k \in Keys |-> NoSandbox]
    /\ \E e \in BOOLEAN, t \in OverlayTrees, w \in RepoTrees :
           /\ ~e => t = EmptyTree
           /\ ov = [phase |-> "called", overlay_exists |-> e, overlay |-> t,
                    before |-> w, repo |-> w, todo |-> {}, walk |-> <<>>,
                    copied |-> 0]
    /\ call = CallIdle
    /\ ServicesIdle

OverlayNext == CopyBegin \/ CopyFile \/ CopyReturn

SpecOverlay == OverlayInit /\ [][OverlayNext]_vars

(***************************************************************************)
(* The root of a working copy, as the helpers of lines 61-100 see it: a    *)
(* listing maps each name to what is there ("none", "file" or "dir").      *)
(***************************************************************************)
Gemfile == <<"G", "e", "m", "f", "i", "l", "e">>
ConfigYml == <<"_", "c", "o", "n", "f", "i", "g", ".", "y", "m", "l">>
RubyVersion == <<".", "r", "u", "b", "y", "-", "v", "e", "r", "s", "i", "o", "n">>
GemfileLock == <<"G", "e", "m", "f", "i", "l", "e", ".", "l", "o", "c", "k">>
RequirementsTxt == <<"r", "e", "q", "u", "i", "r", "e", "m", "e", "n", "t", "s", ".", "t", "x", "t">>
PyprojectToml == <<"p", "y", "p", "r", "o", "j", "e", "c", "t", ".", "t", "o", "m", "l">>
SetupPy == <<"s", "e", "t", "u", "p", ".", "p", "y">>
SetupCfg == <<"s", "e", "t", "u", "p", ".", "c", "f", "g">>
TestsName == <<"t", "e", "s", "t", "s">>
TestAppPy == <<"t", "e", "s", "t", "_", "a", "p", "p", ".", "p", "y">>
AppPy == <<"a", "p", "p", ".", "p", "y">>

Markers ==
    {Gemfile, ConfigYml, RubyVersion, GemfileLock, RequirementsTxt, PyprojectToml,
     SetupPy, SetupCfg}
RootNames == Markers \cup {TestsName, TestAppPy, AppPy}

\* the listing that holds the given files and directories and nothing else
Listing(files, dirs) ==
    [n \in RootNames |-> IF n \in dirs THEN "dir" ELSE IF n \in files THEN "file" ELSE "none"]

\* os.path.exists(os.path.join(repo_dir, name)), line 69
exists(listing, name) == listing[name] # "none"

\* a detection that looks for the python markers first
_detect_project_type_PythonFirst(listing) ==
    IF \/ exists(listing, RequirementsTxt) \/ exists(listing, PyprojectToml)
       \/ exists(listing, SetupPy) \/ exists(listing, SetupCfg)
    THEN "python"
    ELSE IF \/ exists(listing, Gemfile)
            \/ /\ exists(listing, ConfigYml)
               /\ exists(listing, RubyVersion) \/ exists(listing, GemfileLock)
         THEN "jekyll"
         ELSE "unknown"

\* lines 71-75
_detect_project_type(listing) ==
    IF \/ exists(listing, Gemfile)
       \/ /\ exists(listing, ConfigYml)
          /\ exists(listing, RubyVersion) \/ exists(listing, GemfileLock)
    THEN "jekyll"
    ELSE IF \/ exists(listing, RequirementsTxt) \/ exists(listing, PyprojectToml)
            \/ exists(listing, SetupPy) \/ exists(listing, SetupCfg)
         THEN "python"
         ELSE "unknown"

\* str.startswith and str.endswith
StartsWith(s, lit) == HasAt(s, 1, lit)
EndsWith(s, lit) == HasAt(s, Len(s) - Len(lit) + 1, lit)

\* lines 93-100: a directory tests, or any entry of the root named test_*.py
_has_tests(listing) ==
    \/ listing[TestsName] = "dir"
    \/ \E fn \in RootNames :
           /\ exists(listing, fn)
           /\ StartsWith(fn, <<"t", "e", "s", "t", "_">>)
           /\ EndsWith(fn, <<".", "p", "y">>)

\* what a clone of each repository has in its root.  UrlA: a python project
\* whose requirements.txt names a package no index has; UrlLib: a python
\* package (pyproject.toml) without tests; UrlSite: a jekyll site; UrlNotes:
\* neither, and no .py file
RemoteFiles(url) ==
    CASE url \in {UrlA, UrlAGit} -> Listing({RequirementsTxt, AppPy, TestAppPy}, {})
      [] url = UrlLib -> Listing({PyprojectToml, AppPy}, {})
      [] url = UrlSite -> Listing({Gemfile, ConfigYml}, {})
      [] OTHER -> Listing({}, {})

\* the repositories whose requirements.txt pip cannot install
BrokenRequirements == {UrlA, UrlAGit}

\* line 260: any(fn.endswith(".py") for fn in os.listdir(repo_dir))
any_py(listing) ==
    \E fn \in RootNames : exists(listing, fn) /\ EndsWith(fn, <<".", "p", "y">>)

\* the names verify_repo gives to the records of what it has executed on an
\* unknown-type working copy (lines 143-181, 257, 263)
UnknownPlanSteps ==
    {"clone", "fetch", "checkout", "checkout_origin", "reset_hard", "overlay_copy",
     "git_apply_patch", "detect_type", "git_status", "compileall_best_effort"}

\* the root of ./_verify/<k>/repo: what git clone (line 142) has put there
WorkingCopy(k) ==
    IF repo_dir[k].state = "clone"
    THEN RemoteFiles(repo_dir[k].origin)
    ELSE Listing({}, {})

\* a call _detect_project_type(repo_dir) on any combination of the marker files
DetectInit ==
    /\ PipelineInit
    /\ sandbox = [k \in Keys |-> NoSandbox]
    /\ ov = OvIdle
    /\ ServicesIdle
    /\ \E present \in SUBSET Markers :
           call = [phase |-> "called", fn |-> "_detect_project_type",
                   listing |-> Listing(present, {}), result |-> "none"]

DetectProjectType ==
    /\ call.phase = "called"
    /\ call.fn = "_detect_project_type"
    /\ call' = [call EXCEPT !.phase = "returned",
                            !.result = _detect_project_type(call.listing)]
    /\ UNCHANGED <<pipelineVars, ov, serviceVars>>

SpecDetect == DetectInit /\ [][DetectProjectType]_vars


(***************************************************************************)
(* The key of a run on its own (line 124): the explicit sandbox_key, or    *)
(* the key _repo_key_from_url derives from the URL.                        *)
(***************************************************************************)
MaxUrlLen == 4
MaxNameLen == 3

HttpsScheme == <<"h", "t", "t", "p", "s", ":", "/", "/">>
GitAt == <<"g", "i", "t", "@">>
GitlabCom == <<"g", "i", "t", "l", "a", "b", ".", "c", "o", "m">>
Hosts == {GithubCom, GitlabCom}
UrlForms == {"https_git", "https", "ssh_git"}

\* the three forms of the docstring (lines 21-24) for a host, an owner and a
\* repository name
UrlOf(form, host, owner, repo) ==
    CASE form = "https_git" -> HttpsScheme \o host \o <<"/">> \o owner \o <<"/">> \o repo \o DotGit
      [] form = "https" -> HttpsScheme \o host \o <<"/">> \o owner \o <<"/">> \o repo
      [] OTHER -> GitAt \o host \o <<":">> \o owner \o <<"/">> \o repo \o DotGit

StringsOver(alphabet, n) == UNION {[1..k -> alphabet] : k \in 0..n}

\* repository names: letters and dots, a letter first and last, "r.t" and
\* "t" among them
RepoNames ==
    {n \in StringsOver({"r", "t", "."}, MaxNameLen) :
        n # <<>> /\ n[1] # "." /\ n[Len(n)] # "."}
Owners == {<<"o">>, <<"o", "-", "p">>}

\* strings that are no repository URL: "", "o", "o.o/o", ":/", ...
RawUrls == StringsOver({"o", "g", ".", "/", ":"}, MaxUrlLen)

\* "../x", an explicit key that is no name
KeyDotDot == <<".", ".", "/", "x">>
ExplicitKeys == {KeyOX, KeyDotDot}

\* the calls: every form of every repository and every raw string with no
\* explicit key (None or ""), and one URL with each explicit key
KeyCalls ==
    {[repo_url |-> UrlOf(f, h, o, n), sandbox_key |-> k, form |-> f, host |-> h,
      owner |-> o, repo |-> n] :
        f \in UrlForms, h \in Hosts, o \in Owners, n \in RepoNames, k \in {None, EmptyStr}}
    \cup {[repo_url |-> u, sandbox_key |-> k, form |-> "raw", host |-> <<>>,
           owner |-> <<>>, repo |-> <<>>] : u \in RawUrls, k \in {None, EmptyStr}}
    \cup {[repo_url |-> UrlA, sandbox_key |-> k, form |-> "https", host |-> GithubCom,
           owner |-> <<"o">>, repo |-> <<"r">>] : k \in ExplicitKeys}

KeyInit ==
    /\ PipelineInit
    /\ sandbox = [k \in Keys |-> NoSandbox]
    /\ ov = OvIdle
    /\ ServicesIdle
    /\ \E c \in KeyCalls :
           call = [phase |-> "called", fn |-> "key", input |-> c, result |-> <<>>]

\* line 124
ResolveKey ==
    /\ call.phase = "called"
    /\ call.fn = "key"
    /\ call' = [call EXCEPT !.phase = "returned", !.result = KeyOf(call.input)]
    /\ UNCHANGED <<pipelineVars, ov, serviceVars>>

SpecKey == KeyInit /\ [][ResolveKey]_vars

(***************************************************************************)
(* shell_run on its own: any command, working directory and outcome of     *)
(* subprocess.run                                                          *)
(***************************************************************************)
MAX_OUTPUT_CHARS == 12000

ShellCmds == {"git status", "python -m compileall", "bundle install"}
\* cwd: None (the process directory, "."), a directory under ".", a directory
\* that is not under ".", a directory that is not there
Cwds == {"none", "inside", "outside", "missing"}
\* line 13: ALLOWED_CWD_ROOT = os.path.abspath(".")
InsideAllowedRoot(cwd) == cwd \in {"none", "inside", "missing"}

\* what a process can have written: nothing, a little, exactly
\* MAX_OUTPUT_CHARS characters, and more than that
Streams ==
    {Stream(n) : n \in {0, 1, MAX_OUTPUT_CHARS, MAX_OUTPUT_CHARS + 1, 2 * MAX_OUTPUT_CHARS}}

\* subprocess.run (lines 79-86) starts a process unless the executable or
\* the working directory is not there
ProcessStarted(outcome) == outcome \in {"exit0", "exit128", "timeout"}
Completed(outcome) == outcome \in {"exit0", "exit128"}

ShellCalls ==
    {c \in [cmd : ShellCmds, cwd : Cwds, outcome : Outcomes, out : Streams, err : Streams] :
        /\ c.cwd = "missing" => c.outcome = "notfound"
        /\ ~Completed(c.outcome) => c.out = Stream(0) /\ c.err = Stream(0)}

ShellInit ==
    /\ PipelineInit
    /\ sandbox = [k \in Keys |-> NoSandbox]
    /\ ov = OvIdle
    /\ ServicesIdle
    /\ \E c \in ShellCalls :
           call = [phase |-> "called", fn |-> "shell_run", input |-> c, result |-> NoR]

ShellRun ==
    /\ call.phase = "called"
    /\ call.fn = "shell_run"
    /\ call' = [call EXCEPT
                   !.phase = "returned",
                   !.result = shell_run(call.input.cmd, call.input.cwd, call.input.outcome,
                                        call.input.out, call.input.err)]
    /\ UNCHANGED <<pipelineVars, ov, serviceVars>>

SpecShell == ShellInit /\ [][ShellRun]_vars

(***************************************************************************)
(* The filesystem tools of tools/fs_tools.py, lines 122-223.  Each of them *)
(* starts with print(f"... {path}") and binds its local path only inside   *)
(* the try that follows, so the print reads an unbound local and nothing   *)
(* after it is executed: the try blocks have no action here.               *)
(***************************************************************************)
FsTools == {"fs_read", "fs_write", "fs_list_dir", "fs_exists", "fs_delete"}
\* what is at path_string
FsTargets == {"absent", "file", "empty_dir", "dir", "unreadable", "dangling_link"}

FsCalls ==
    {c \in [tool : FsTools, target : FsTargets, mode : {"w", "a", "q", "-"},
            content : {"", "text", "-"}] :
        (c.mode = "-") = (c.tool # "fs_write") /\ (c.content = "-") = (c.tool # "fs_write")}

\* a local variable that has no value yet
Unbound == "<unbound>"

FsInit ==
    /\ PipelineInit
    /\ sandbox = [k \in Keys |-> NoSandbox]
    /\ ov = OvIdle
    /\ ServicesIdle
    /\ \E c \in FsCalls :
           call = [phase |-> "called", fn |-> c.tool, input |-> c,
                   path |-> Unbound, exc |-> "", result |-> ""]

\* the first statement (lines 129, 149, 168, 191, 208): the f-string reads
\* the local path
FsPrint ==
    /\ call.phase = "called"
    /\ call.fn \in FsTools
    /\ call' = IF call.path = Unbound
               THEN [call EXCEPT !.phase = "raised", !.exc = "UnboundLocalError"]
               ELSE [call EXCEPT !.phase = "try"]
    /\ UNCHANGED <<pipelineVars, ov, serviceVars>>

SpecFs == FsInit /\ [][FsPrint]_vars

(***************************************************************************)
(* MainAgent, src/models/main_agent.py.  An exception is a record of its   *)
(* class and its message; a message is a sequence of characters.           *)
(***************************************************************************)
\* self.models (lines 16-20); model_idx counts from 0
models ==
    <<[provider |-> "openrouter", model |-> "openai/gpt-oss-20b:free"],
      [provider |-> "openrouter", model |-> "openai/gpt-oss-120b:free"],
      [provider |-> "openai", model |-> "gpt-5-mini"]>>

\* _make_llm (lines 44-72): the ChatOpenAI object, by what it is built from
_make_llm(spec) == [model |-> spec.model, provider |-> spec.provider]
\* create_agent(model=..., tools=..., system_prompt=...) (lines 29-33, 80-84)
create_agent(model) == [model |-> model]

UpperLetters ==
    <<"A", "B", "C", "D", "E", "F", "G", "H", "I", "J", "K", "L", "M",
      "N", "O", "P", "Q", "R", "S", "T", "U", "V", "W", "X", "Y", "Z">>
LowerLetters ==
    <<"a", "b", "c", "d", "e", "f", "g", "h", "i", "j", "k", "l", "m",
      "n", "o", "p", "q", "r", "s", "t", "u", "v", "w", "x", "y", "z">>
\* str.lower()
Lower(s) ==
    [n \in 1..Len(s) |->
        IF \E k \in 1..Len(UpperLetters) : UpperLetters[k] = s[n]
        THEN LowerLetters[CHOOSE k \in 1..Len(UpperLetters) : UpperLetters[k] = s[n]]
        ELSE s[n]]
\* lit in s
Contains(s, lit) == \E p \in 1..(Len(s) + 1) : HasAt(s, p, lit)

\* retry_markers (lines 116-130)
retry_markers ==
    {<<"t", "i", "m", "e", "o", "u", "t">>,
     <<"t", "i", "m", "e", "d", " ", "o", "u", "t">>,
     <<"r", "a", "t", "e", " ", "l", "i", "m", "i", "t">>,
     <<"4", "2", "9">>,
     <<"5", "0", "2">>,
     <<"5", "0", "3">>,
     <<"5", "0", "4">>,
     <<"b", "a", "d", " ", "g", "a", "t", "e", "w", "a", "y">>,
     <<"s", "e", "r", "v", "i", "c", "e", " ", "u", "n", "a", "v", "a", "i", "l", "a", "b", "l", "e">>,
     <<"g", "a", "t", "e", "w", "a", "y", " ", "t", "i", "m", "e", "o", "u", "t">>,
     <<"c", "o", "n", "n", "e", "c", "t", "i", "o", "n">>,
     <<"t", "e", "m", "p", "o", "r", "a", "r", "i", "l", "y">>,
     <<"t", "r", "y", " ", "a", "g", "a", "i", "n">>}

\* the messages of the RuntimeErrors of lines 213, 221, 238 and 244
MsgInvalidToolCall ==
    <<"I", "n", "v", "a", "l", "i", "d", " ", "t", "o", "o", "l", " ", "c", "a", "l",
      "l", " ", "J", "S", "O", "N", " ", "f", "r", "o", "m", " ", "m", "o", "d", "e",
      "l">>
MsgNoAIMessage ==
    <<"N", "o", " ", "A", "I", "M", "e", "s", "s", "a", "g", "e", " ", "r", "e", "t",
      "u", "r", "n", "e", "d">>
MsgEmptyText ==
    <<"E", "m", "p", "t", "y", " ", "a", "s", "s", "i", "s", "t", "a", "n", "t", " ",
      "t", "e", "x", "t", " ", "f", "r", "o", "m", " ", "m", "o", "d", "e", "l">>
MsgToolCallsNoText ==
    <<"T", "o", "o", "l", " ", "c", "a", "l", "l", "s", " ", "e", "m", "i", "t", "t",
      "e", "d", " ", "b", "u", "t", " ", "n", "o", " ", "f", "i", "n", "a", "l", " ",
      "a", "s", "s", "i", "s", "t", "a", "n", "t", " ", "t", "e", "x", "t">>
\* the substrings _should_try_next_model looks for (lines 260-263)
InvalidToolCallJson ==
    <<"I", "n", "v", "a", "l", "i", "d", " ", "t", "o", "o", "l", " ", "c", "a", "l",
      "l", " ", "J", "S", "O", "N">>
NoAIMessageReturned ==
    <<"N", "o", " ", "A", "I", "M", "e", "s", "s", "a", "g", "e", " ", "r", "e", "t",
      "u", "r", "n", "e", "d">>
EmptyAssistantText ==
    <<"E", "m", "p", "t", "y", " ", "a", "s", "s", "i", "s", "t", "a", "n", "t", " ",
      "t", "e", "x", "t">>
ToolCallsNoFinalText ==
    <<"T", "o", "o", "l", " ", "c", "a", "l", "l", "s", " ", "e", "m", "i", "t", "t",
      "e", "d", " ", "b", "u", "t", " ", "n", "o", " ", "f", "i", "n", "a", "l", " ",
      "a", "s", "s", "i", "s", "t", "a", "n", "t", " ", "t", "e", "x", "t">>
BadOutputMarkers ==
    {InvalidToolCallJson, EmptyAssistantText, NoAIMessageReturned, ToolCallsNoFinalText}

\* what agent.invoke can raise: the client's timeout, connection and
\* rate-limit errors, a rejected key, and a RuntimeError of the runtime
MsgTimedOut ==
    <<"R", "e", "q", "u", "e", "s", "t", " ", "t", "i", "m", "e", "d", " ", "o", "u",
      "t", ".">>
MsgConnectionError ==
    <<"C", "o", "n", "n", "e", "c", "t", "i", "o", "n", " ", "e", "r", "r", "o", "r",
      ".">>
Msg429 == <<"E", "r", "r", "o", "r", " ", "c", "o", "d", "e", ":", " ", "4", "2", "9">>
Msg401 == <<"E", "r", "r", "o", "r", " ", "c", "o", "d", "e", ":", " ", "4", "0", "1">>
MsgLoopClosed ==
    <<"E", "v", "e", "n", "t", " ", "l", "o", "o", "p", " ", "i", "s", " ", "c", "l",
      "o", "s", "e", "d">>
NoErr == [type |-> "", msg |-> <<>>]
InvokeErrors ==
    {[type |-> "APITimeoutError", msg |-> MsgTimedOut],
     [type |-> "APIConnectionError", msg |-> MsgConnectionError],
     [type |-> "RateLimitError", msg |-> Msg429],
     [type |-> "AuthenticationError", msg |-> Msg401],
     [type |-> "RuntimeError", msg |-> MsgLoopClosed]}

\* _should_failover (lines 113-131)
_should_failover(e) == \E x \in retry_markers : Contains(Lower(e.msg), x)

\* a policy that tries the next model after every error
_should_try_next_model_Always(e) == TRUE

\* _should_try_next_model (lines 255-268)
_should_try_next_model(e) ==
    IF e.type = "RuntimeError" /\ \E x \in BadOutputMarkers : Contains(e.msg, x)
    THEN TRUE
    ELSE _should_failover(e)

RuntimeError(msg) == [type |-> "RuntimeError", msg |-> msg]

\* what agent.invoke returns, as message reads it: the last AIMessage of the
\* result, if there is one, its content (a string or None) and whether its
\* tool_calls and invalid_tool_calls are non-empty (lines 97-111, 202, 223-224)
NoAIMessage ==
    [ai |-> FALSE, content |-> None, tool_calls |-> FALSE, invalid_tool_calls |-> FALSE]
Contents == {None, EmptyStr, <<" ">>, <<"o", "k">>, <<" ", "o", "k", "\n">>}
AgentResults ==
    {NoAIMessage} \cup
    [ai : {TRUE}, content : Contents, tool_calls : BOOLEAN, invalid_tool_calls : BOOLEAN]

\* _raise_if_invalid_tool_calls (lines 199-213): the error it raises, if any
_raise_if_invalid_tool_calls(last_ai) ==
    IF last_ai.ai /\ last_ai.invalid_tool_calls
    THEN RuntimeError(MsgInvalidToolCall)
    ELSE NoErr

\* _extract_final_text_or_raise (lines 216-244): the error it raises or the
\* text it returns
_extract_final_text_or_raise(last_ai) ==
    IF ~last_ai.ai
    THEN [raised |-> RuntimeError(MsgNoAIMessage), text |-> <<>>]
    ELSE IF (IF last_ai.content = None THEN FALSE ELSE Strip(last_ai.content) # <<>>)
         THEN [raised |-> NoErr, text |-> Strip(last_ai.content)]
         ELSE IF ~last_ai.tool_calls
              THEN [raised |-> RuntimeError(MsgEmptyText), text |-> <<>>]
              ELSE [raised |-> RuntimeError(MsgToolCallsNoText), text |-> <<>>]

\* the try block of lines 158-165 on what agent.invoke did: raise e, or
\* return res
InvokeOutcomes ==
    [raised : InvokeErrors, res : {NoAIMessage}] \cup [raised : {NoErr}, res : AgentResults]
TryBlock(o) ==
    IF o.raised # NoErr
    THEN [raised |-> o.raised, text |-> <<>>]
    ELSE IF _raise_if_invalid_tool_calls(o.res) # NoErr
         THEN [raised |-> _raise_if_invalid_tool_calls(o.res), text |-> <<>>]
         ELSE _extract_final_text_or_raise(o.res)

\* the try block and the policy on every outcome, worked out once
TryBlockOf == [o \in InvokeOutcomes |-> TryBlock(o)] @@ [o \in {} |-> NoErr]
Errors == {TryBlockOf[o].raised : o \in InvokeOutcomes} \ {NoErr}
TryNextModel == [e \in Errors |-> _should_try_next_model(e)] @@ [e \in {} |-> FALSE]

\* the user messages: a question, and the reload command as typed
UserQuestion == <<"h", "i">>
UserReload == <<" ", "/", "R", "e", "l", "o", "a", "d", "\n">>
UserMsgs == {UserQuestion, UserReload}
ReloadCommands ==
    {<<"r", "e", "l", "o", "a", "d", " ", "s", "y", "s", "t", "e", "m">>,
     <<"r", "e", "l", "o", "a", "d", "_", "s", "y", "s", "t", "e", "m">>,
     <<"/", "r", "e", "l", "o", "a", "d", "_", "s", "y", "s", "t", "e", "m">>,
     <<"/", "r", "e", "l", "o", "a", "d">>}
SystemPromptReloaded ==
    <<"S", "y", "s", "t", "e", "m", " ", "p", "r", "o", "m", "p", "t", " ", "r", "e",
      "l", "o", "a", "d", "e", "d", ".">>
ReloadFailed ==
    <<"S", "y", "s", "t", "e", "m", " ", "p", "r", "o", "m", "p", "t", " ", "r", "e",
      "l", "o", "a", "d", " ", "f", "a", "i", "l", "e", "d", ":", " ">>

AllModelsFailed ==
    <<"A", "l", "l", " ", "m", "o", "d", "e", "l", "s", " ", "f", "a", "i", "l", "e",
      "d", ".">>

NoAnswer == [kind |-> "none", text |-> <<>>, exc |-> NoErr]
Answer(text) == [kind |-> "text", text |-> text, exc |-> NoErr]
Raised(e) == [kind |-> "exception", text |-> <<>>, exc |-> e]

\* __init__ (lines 12-33): the object after construction
AgentNew ==
    [phase |-> "ready", model_idx |-> 0,
     model |-> _make_llm(models[1]), agent |-> create_agent(_make_llm(models[1])),
     attempt |-> 0, last_err |-> NoErr, last_res |-> NoAIMessage,
     invoked |-> <<>>, failovers |-> 0, result |-> NoAnswer]

\* _rebuild_agent (lines 77-84)
_rebuild_agent(self) ==
    [self EXCEPT !.model = _make_llm(models[self.model_idx + 1]),
                 !.agent = create_agent(_make_llm(models[self.model_idx + 1]))]

\* a failover that stays on the last model
_failover_NoWrap(self) ==
    _rebuild_agent([self EXCEPT !.model_idx =
                        IF @ < Len(models) - 1 THEN @ + 1 ELSE @])

\* _failover (lines 86-95)
_failover(self) ==
    _rebuild_agent([self EXCEPT !.model_idx =
                        IF @ < Len(models) - 1 THEN @ + 1 ELSE 0])

\* message, lines 142-149: the reload command is answered at once (lines
\* 180-189: system_prompt.txt is read and the agent rebuilt, or the failure
\* is reported); any other message enters the loop
Message(user_msg) ==
    /\ main_agent.phase \in {"ready", "returned", "raised"}
    /\ LET fresh == [main_agent EXCEPT !.attempt = 0, !.last_err = NoErr,
                                       !.last_res = NoAIMessage, !.invoked = <<>>,
                                       !.failovers = 0, !.result = NoAnswer]
       IN  IF Lower(Strip(user_msg)) \in ReloadCommands
           THEN \E read \in BOOLEAN :
                    main_agent' =
                        IF read
                        THEN [_rebuild_agent(fresh) EXCEPT
                                  !.phase = "returned", !.result = Answer(SystemPromptReloaded)]
                        ELSE [fresh EXCEPT
                                  !.phase = "returned", !.result = Answer(ReloadFailed)]
           ELSE main_agent' = [fresh EXCEPT !.phase = "loop"]
    /\ UNCHANGED <<pipelineVars, ov, call, telegram, github>>

\* lines 151-176: one round of the loop
Attempt(o) ==
    /\ main_agent.phase = "loop"
    /\ main_agent.attempt < Len(models)
    /\ LET done == TryBlockOf[o]
           invoked == [main_agent EXCEPT !.invoked = Append(@, main_agent.agent.model.model),
                                         !.last_res = o.res]
       IN  main_agent' =
               IF done.raised = NoErr
               THEN [invoked EXCEPT !.phase = "returned", !.result = Answer(done.text)]
               ELSE IF TryNextModel[done.raised]
                    THEN [_failover(invoked) EXCEPT !.last_err = done.raised,
                                                    !.failovers = @ + 1,
                                                    !.attempt = @ + 1]
                    ELSE [invoked EXCEPT !.last_err = done.raised,
                                         !.phase = "raised",
                                         !.result = Raised(done.raised)]
    /\ UNCHANGED <<pipelineVars, ov, call, telegram, github>>

\* a loop that starts over when every model has failed
Exhausted_StartsOver ==
    /\ main_agent.phase = "loop"
    /\ main_agent.attempt = Len(models)
    /\ main_agent' = [main_agent EXCEPT !.attempt = 0, !.invoked = <<>>, !.failovers = 0]
    /\ UNCHANGED <<pipelineVars, ov, call, telegram, github>>

\* line 178: every round has failed over
Exhausted ==
    /\ main_agent.phase = "loop"
    /\ main_agent.attempt = Len(models)
    /\ main_agent' =
           [main_agent EXCEPT
               !.phase = "raised",
               !.result = Raised(IF main_agent.last_err # NoErr
                                 THEN main_agent.last_err
                                 ELSE RuntimeError(AllModelsFailed))]
    /\ UNCHANGED <<pipelineVars, ov, call, telegram, github>>

AgentInit ==
    /\ PipelineInit
    /\ sandbox = [k \in Keys |-> NoSandbox]
    /\ ov = OvIdle
    /\ call = CallIdle
    /\ main_agent = AgentNew
    /\ telegram = TelegramIdle
    /\ github = GithubIdle

AgentNext ==
    \/ \E user_msg \in UserMsgs : Message(user_msg)
    \/ \E o \in InvokeOutcomes : Attempt(o)
    \/ Exhausted

\* a call of message goes on until it returns or raises
SpecAgent ==
    /\ AgentInit
    /\ [][AgentNext]_vars
    /\ WF_vars((\E o \in InvokeOutcomes : Attempt(o)) \/ Exhausted)

(***************************************************************************)
(* telegram_get_response, src/tools/notify_tools.py.  The bot's server     *)
(* keeps every update until a getUpdates call with a higher offset         *)
(* confirms it.                                                            *)
(***************************************************************************)
\* the update_ids the user's messages get
MaxUpdateId == 3
UpdateIds == 1..MaxUpdateId
\* an update: a text message of the chat TELEGRAM_CHAT_ID, a text message of
\* another chat, or an update without text
UpdateKinds == {"text", "other_chat", "no_text"}

MaxOf(ids) == IF ids = {} THEN 0 ELSE CHOOSE x \in ids : \A y \in ids : y <= x
MinOf(ids) == CHOOSE x \in ids : \A y \in ids : x <= y
IdsOf(upds) == {u.update_id : u \in upds}

\* the reply to getUpdates?offset=...: the unconfirmed updates from offset
\* on; without offset (0 here, None in the code) all of them
Results(pending, offset) == {u \in pending : u.update_id >= offset}

\* a user's message reaches the bot
Arrive(kind) ==
    /\ telegram.next_id \in UpdateIds
    /\ telegram' = [telegram EXCEPT
           !.pending = @ \cup {[update_id |-> telegram.next_id, kind |-> kind]},
           !.next_id = @ + 1]
    /\ UNCHANGED <<pipelineVars, ov, call, main_agent, github>>

\* lines 119-130: the call starts; token and chat id are set
GetResponse ==
    /\ telegram.phase \in {"idle", "returned"}
    /\ telegram' = [telegram EXCEPT !.phase = "called", !.last_update_id = 0,
                                    !.offset = 0, !.result = NoR]
    /\ UNCHANGED <<pipelineVars, ov, call, main_agent, github>>

\* lines 132-134: baseline = _get_latest_update_id_from_telegram() (lines
\* 77-96: the highest update_id of a getUpdates without offset, 0 when the
\* request fails or there is no update)
Baseline(http_ok) ==
    /\ telegram.phase = "called"
    /\ LET baseline == IF http_ok THEN MaxOf(IdsOf(telegram.pending)) ELSE 0
       IN  telegram' = [telegram EXCEPT
               !.phase = "polling",
               !.last_update_id = baseline,
               !.offset = IF baseline # 0 THEN baseline + 1 ELSE 0]
    /\ UNCHANGED <<pipelineVars, ov, call, main_agent, github>>

\* lines 136-167: one poll before the deadline.  The request confirms the
\* updates below offset; the updates of the reply are gone through in the
\* order of their ids up to the first text message of the chat
Poll(http_ok) ==
    /\ telegram.phase = "polling"
    /\ IF ~http_ok
       THEN telegram' = [telegram EXCEPT
                !.phase = "returned",
                !.result = [ok |-> FALSE, error |-> "telegram_get_response error: HTTP"]]
       ELSE LET kept == Results(telegram.pending, telegram.offset)
                texts == {u.update_id : u \in {v \in kept : v.kind = "text"}}
                seen == IF texts # {}
                        THEN {n \in IdsOf(kept) : n <= MinOf(texts)}
                        ELSE IdsOf(kept)
                last == MaxOf(seen \cup {telegram.last_update_id})
            IN  IF texts # {}
                THEN telegram' = [telegram EXCEPT
                         !.pending = kept,
                         !.last_update_id = last,
                         !.offset = IF last # telegram.last_update_id THEN last + 1 ELSE @,
                         !.file = last,
                         !.phase = "returned",
                         !.result = [ok |-> TRUE, update_id |-> last,
                                     delivered |-> MinOf(texts)],
                         !.delivered = @ \cup {MinOf(texts)},
                         !.left_behind = @ \cup (texts \ {MinOf(texts)})]
                ELSE telegram' = [telegram EXCEPT
                         !.pending = kept,
                         !.last_update_id = last,
                         !.offset = IF last # telegram.last_update_id THEN last + 1 ELSE @]
    /\ UNCHANGED <<pipelineVars, ov, call, main_agent, github>>

\* lines 136, 169-171: the deadline has passed
Deadline ==
    /\ telegram.phase = "polling"
    /\ telegram' = [telegram EXCEPT
           !.file = telegram.last_update_id,
           !.phase = "returned",
           !.result = [ok |-> FALSE, timeout |-> TRUE,
                       last_update_id |-> telegram.last_update_id],
           !.left_behind = @ \cup
               {u.update_id : u \in {v \in telegram.pending :
                                         /\ v.kind = "text"
                                         /\ v.update_id \notin telegram.delivered}}]
    /\ UNCHANGED <<pipelineVars, ov, call, main_agent, github>>

\* no update yet, no memory/update_id.txt, no call made.  delivered: the
\* updates whose text a call has returned; left_behind: the text messages of
\* the chat the server held, not yet returned, when a call returned
TelegramInit ==
    /\ PipelineInit
    /\ sandbox = [k \in Keys |-> NoSandbox]
    /\ ov = OvIdle
    /\ call = CallIdle
    /\ main_agent = AgentIdle
    /\ github = GithubIdle
    /\ telegram = [phase |-> "idle", pending |-> {}, next_id |-> 1, file |-> 0,
                   last_update_id |-> 0, offset |-> 0, result |-> NoR,
                   delivered |-> {}, left_behind |-> {}]

TelegramNext ==
    \/ \E kind \in UpdateKinds : Arrive(kind)
    \/ GetResponse
    \/ \E http_ok \in BOOLEAN : Baseline(http_ok)
    \/ \E http_ok \in BOOLEAN : Poll(http_ok)
    \/ Deadline

SpecTelegram == TelegramInit /\ [][TelegramNext]_vars

(***************************************************************************)
(* github_propose_change, src/github_tools.py.  A reply of the GitHub API  *)
(* is its status and, where the code reads it, its text.                   *)
(***************************************************************************)
MaxChanges == 2
ChangePaths == {"README.md", "index.html"}
\* changes: up to MaxChanges upserts, the same path twice included
ChangeLists ==
    UNION {[1..n -> [path : ChangePaths]] : n \in 0..MaxChanges}

Reply(status, text) == [status |-> status, text |-> text]
\* a request that raised (gh_headers' RuntimeError, a requests exception)
NoReply == Reply(0, "exception")
AlreadyExists == "Reference already exists"
\* GET .../git/ref/heads/<from_ref> (line 51)
RefReplies == {Reply(200, ""), Reply(404, "Not Found"), NoReply}
\* POST .../git/refs (line 58)
CreateReplies ==
    {Reply(201, ""), Reply(422, AlreadyExists), Reply(422, "Validation Failed"),
     Reply(403, "Forbidden"), NoReply}
\* GET and PUT .../contents/<path> (lines 12, 87)
GetReplies == {Reply(200, ""), Reply(404, "Not Found"), Reply(500, ""), NoReply}
PutReplies == {Reply(200, ""), Reply(201, ""), Reply(409, ""), Reply(422, ""), NoReply}
\* POST .../pulls (line 103)
PullReplies ==
    {Reply(201, ""), Reply(422, "A pull request already exists"),
     Reply(422, "Validation Failed"), NoReply}

\* a branch creation that reports an existing branch as an error
github_create_branch_ExistsIsError(rr, cr) ==
    IF rr.status # 200
    THEN [error |-> rr.status, details |-> rr.text]
    ELSE IF cr.status \notin {200, 201}
         THEN [error |-> cr.status, details |-> cr.text]
         ELSE [ref |-> "refs/heads/new_branch"]

\* github_create_branch (lines 49-66): what it returns
github_create_branch(rr, cr) ==
    IF rr.status # 200
    THEN [error |-> rr.status, details |-> rr.text]
    ELSE IF cr.status = 422 /\ cr.text = AlreadyExists
         THEN [ok |-> TRUE, note |-> "branch_exists", ref |-> "refs/heads/new_branch"]
         ELSE IF cr.status \notin {200, 201}
              THEN [error |-> cr.status, details |-> cr.text]
              ELSE [ref |-> "refs/heads/new_branch"]

\* github_get_file (lines 10-21)
github_get_file(reply) ==
    IF reply.status # 200
    THEN [error |-> reply.status, details |-> reply.text]
    ELSE [sha |-> "sha"]

\* github_put_file (lines 69-90)
github_put_file(reply) ==
    IF reply.status \notin {200, 201}
    THEN [error |-> reply.status, details |-> reply.text]
    ELSE [content |-> "content", commit |-> "commit"]

\* github_create_pull_request (lines 93-118)
github_create_pull_request(reply) ==
    IF reply.status = 422 /\ reply.text = "A pull request already exists"
    THEN [error |-> 422, details |-> reply.text, note |-> "pr_exists"]
    ELSE IF reply.status \notin {200, 201}
         THEN [error |-> reply.status, details |-> reply.text]
         ELSE [number |-> 1, state |-> "open"]

Op(name, path) == [op |-> name, path |-> path]
GithubRaise == [github EXCEPT !.phase = "raised"]

\* lines 140-145: the branch is created from base_branch
CreateBranch(rr, cr) ==
    /\ github.phase = "called"
    \* what GitHub can reply: the branch is created when it is not there yet
    \* and reported as existing when it is
    /\ cr.status = 201 => ~github.branch_exists
    /\ (cr.status = 422 /\ cr.text = AlreadyExists) => github.branch_exists
    /\ IF rr = NoReply \/ (rr.status = 200 /\ cr = NoReply)
       THEN github' = [GithubRaise EXCEPT !.ops = Append(@, Op("create_branch", ""))]
       ELSE LET br == github_create_branch(rr, cr)
                sent == [github EXCEPT
                            !.ops = Append(@, Op("create_branch", "")),
                            !.br = br,
                            !.cr = IF rr.status = 200 THEN cr ELSE NoReply,
                            !.branch_exists = @ \/ (rr.status = 200 /\ cr.status = 201)]
            IN  github' =
                    IF HasKey(br, "error")
                    THEN [sent EXCEPT !.phase = "returned",
                                      !.result = [error |-> "create_branch_failed"]]
                    ELSE [sent EXCEPT !.phase = "changes"]
    /\ UNCHANGED <<pipelineVars, ov, call, main_agent, telegram>>

\* lines 148-163: one change of the list: the file is looked up on the new
\* branch and written with the sha found
PutChange(got, put) ==
    /\ github.phase = "changes"
    /\ github.idx <= Len(github.changes)
    /\ LET path == github.changes[github.idx].path
           existing == github_get_file(got)
           has_sha == ~HasKey(existing, "error")
           looked == [github EXCEPT !.ops = Append(@, Op("get", path))]
       IN  \* what GitHub can reply: a file is found when it is there, and is
           \* written when the sha of what is there comes with it
           /\ got.status = 200 => path \in github.files
           /\ got.status = 404 => path \notin github.files
           /\ put.status \in {200, 201} => (has_sha <=> path \in github.files)
           /\ IF got = NoReply
              THEN github' = [looked EXCEPT !.phase = "raised"]
              ELSE IF put = NoReply
                   THEN github' = [looked EXCEPT !.phase = "raised",
                                                 !.ops = Append(@, Op("put", path))]
                   ELSE LET res == github_put_file(put)
                            sent == [looked EXCEPT
                                        !.ops = Append(@, Op("put", path)),
                                        !.results = Append(@, [path |-> path, result |-> res])]
                        IN  github' =
                                IF HasKey(res, "error")
                                THEN [sent EXCEPT !.phase = "returned",
                                                  !.result = [error |-> "put_file_failed"]]
                                ELSE [sent EXCEPT !.idx = @ + 1,
                                                  !.files = @ \cup {path},
                                                  !.written = Append(@, path)]
    /\ UNCHANGED <<pipelineVars, ov, call, main_agent, telegram>>

\* lines 165-171: the pull request from the new branch into base_branch
CreatePullRequest(reply) ==
    /\ github.phase = "changes"
    /\ github.idx > Len(github.changes)
    \* what GitHub can reply: one pull request per branch
    /\ reply.status = 201 => ~github.pull_request
    /\ IF reply = NoReply
       THEN github' = [GithubRaise EXCEPT !.ops = Append(@, Op("create_pr", ""))]
       ELSE LET pr == github_create_pull_request(reply)
                sent == [github EXCEPT !.ops = Append(@, Op("create_pr", "")),
                                       !.phase = "returned"]
            IN  github' =
                    IF HasKey(pr, "error")
                    THEN [sent EXCEPT !.result = [error |-> "create_pr_failed"]]
                    ELSE [sent EXCEPT !.result = [ok |-> TRUE],
                                      !.pull_request = TRUE,
                                      !.created_pr = TRUE]
    /\ UNCHANGED <<pipelineVars, ov, call, main_agent, telegram>>

\* a call github_propose_change(owner, repo, changes, ...) on a repository
\* where the new branch, a pull request from it and any of the files may be
\* there already.  written: the paths this call has written, in order;
\* created_pr: whether it has created a pull request
GithubInit ==
    /\ PipelineInit
    /\ sandbox = [k \in Keys |-> NoSandbox]
    /\ ov = OvIdle
    /\ call = CallIdle
    /\ main_agent = AgentIdle
    /\ telegram = TelegramIdle
    /\ \E changes \in ChangeLists, b \in BOOLEAN, pull \in BOOLEAN,
          files \in SUBSET ChangePaths :
           /\ pull => b
           /\ github = [phase |-> "called", changes |-> changes, idx |-> 1,
                        branch_exists |-> b, pull_request |-> pull, files |-> files,
                        br |-> NoR, cr |-> NoReply, results |-> <<>>, result |-> NoR,
                        ops |-> <<>>, written |-> <<>>, created_pr |-> FALSE]

GithubNext ==
    \/ \E rr \in RefReplies, cr \in CreateReplies : CreateBranch(rr, cr)
    \/ \E got \in GetReplies, put \in PutReplies : PutChange(got, put)
    \/ \E reply \in PullReplies : CreatePullRequest(reply)

SpecGithub == GithubInit /\ [][GithubNext]_vars

(***************************************************************************)
(* Properties                                                              *)
(***************************************************************************)
Ended(i) == pc[i] \in {"raised", "returned"}
Reported(i) == result[i].kind = "report"
ReportOf(i) == result[i].report
RanCommand(i) == HasKey(r[i], "ok")
LastCommandFailed(i) == RanCommand(i) /\ ~r[i].ok
LastCommandOk(i) == RanCommand(i) /\ r[i].ok
StepNames(st) == [n \in 1..Len(st) |-> st[n].name]

\* Every statement past the first steps.append is unreachable: an invocation
\* is at one of lines 124-149 or has ended with an exception.
OnlyFirstStep ==
    \A i \in Invocations :
        /\ pc[i] \in {"idle", "line138", "line140", "line142", "line143", "line148",
                      "line149", "raised"}
        /\ steps[i] = <<>>

\* C1: no exception escapes verify_repo: every invocation that has ended has
\* ended by returning a report, and the report of an invocation whose command
\* failed (non-zero exit, executable not found, timeout) has ok = false.
C1_NoExceptionEscapes ==
    \A i \in Invocations :
        Ended(i) =>
            /\ Reported(i)
            /\ LastCommandFailed(i) => ~ReportOf(i).ok

\* C2: fail-fast: when a command fails the invocation ends there, and the
\* returned steps hold one record per command run, the last of them the record
\* of the failing command.
C2_FailFast ==
    \A i \in Invocations :
        (Ended(i) /\ LastCommandFailed(i)) =>
            /\ Reported(i)
            /\ Len(ReportOf(i).steps) = Len(cmds[i])
            /\ LET last == ReportOf(i).steps[Len(cmds[i])]
               IN  last.name = cmds[i][Len(cmds[i])] /\ last.exit # 0

\* C3: every invocation ends with a report, and a report that holds a step
\* record with a non-zero exit has ok = false.
C3_FailingStepMeansNotOk ==
    \A i \in Invocations :
        Ended(i) =>
            /\ Reported(i)
            /\ (\E n \in 1..Len(ReportOf(i).steps) : ReportOf(i).steps[n].exit # 0)
                   => ~ReportOf(i).ok

\* C4: every failure path returns a report that carries the step log gathered
\* so far, the failing step included, and the stdout and stderr tails of the
\* failing step, whatever the kind of failure.
C4_FailureCarriesLogAndTails ==
    \A i \in Invocations :
        (Ended(i) /\ LastCommandFailed(i)) =>
            /\ Reported(i)
            /\ {"steps", "stderr_tail", "stdout_tail"} \subseteq DOMAIN ReportOf(i)
            /\ ReportOf(i).steps # <<>>
            /\ ReportOf(i).steps = steps[i]

\* C5: the step log of an invocation whose commands succeed lists the stages
\* in the fixed order: clone or fetch first, then checkout, then reset_hard,
\* overlay_copy and detect_type in this order.
C5_StagesInOrder ==
    \A i \in Invocations :
        (Ended(i) /\ LastCommandOk(i)) =>
            /\ Reported(i)
            /\ LET names == StepNames(ReportOf(i).steps)
               IN  /\ Len(names) >= 2
                   /\ names[1] \in {"clone", "fetch"}
                   /\ names[2] = "checkout"
                   /\ \E a, b, c \in 1..Len(names) :
                          /\ a < b /\ b < c
                          /\ names[a] = "reset_hard"
                          /\ names[b] = "overlay_copy"
                          /\ names[c] = "detect_type"

\* C6 (P1): for a repository URL that cannot be reached, whatever is under
\* the verification root, the report has ok = false and its steps are exactly
\* one record, the clone step.
C6_UnreachableUrlOnlyClone ==
    \A i \in Invocations :
        (Ended(i) /\ args[i].repo_url \notin ReachableUrls) =>
            /\ Reported(i)
            /\ ~ReportOf(i).ok
            /\ StepNames(ReportOf(i).steps) = <<"clone">>

\* C7 (P2): a second run on the working copy a first run cloned, with every
\* command succeeding, returns ok = true as the first did, its steps starting
\* with fetch, checkout, reset_hard instead of clone.
C7_SecondRunIdempotent ==
    \A i \in Invocations :
        (Ended(i) /\ LastCommandOk(i) /\ repo_dir[key(i)].state = "clone") =>
            /\ Reported(i)
            /\ ReportOf(i).ok
            /\ cmds[i][1] = "fetch" =>
                   /\ Len(ReportOf(i).steps) >= 3
                   /\ SubSeq(StepNames(ReportOf(i).steps), 1, 3)
                          = <<"fetch", "checkout", "reset_hard">>

\* C8: every run on a cached working copy re-normalizes it: a run whose fetch
\* succeeded goes on to git checkout and git reset --hard, whatever earlier
\* runs left behind.
C8_LaterRunResetsHard ==
    \A i \in Invocations :
        (Ended(i) /\ LastCommandOk(i) /\ cmds[i][1] = "fetch") =>
            \E m, n \in 1..Len(cmds[i]) :
                m < n /\ cmds[i][m] = "checkout" /\ cmds[i][n] = "reset_hard"

\* C9 (P3): when _copy_overlay returns, every file X of the overlay that was
\* a file of the working copy holds exactly the overlay's content (overwritten,
\* not merged), at the top level and below it; a file of the overlay that was
\* not in the working copy is there with the overlay's content, under a
\* directory created for it when there was none.
C9_OverlayWins ==
    ov.phase = "returned" =>
        \A X \in Paths :
            (ov.overlay[X].kind = "file" /\ ov.before[X].kind # "dir") =>
                /\ ov.repo[X] = ov.overlay[X]
                /\ Len(X) = 2 => ov.repo[<<X[1]>>].kind = "dir"

\* a returned copy that overwrote a nested file of the working copy with
\* different content and created another file under a directory that was not
\* there
C9_Witness ==
    /\ ov.phase = "returned"
    /\ \E X \in SubPaths, Z \in SubPaths :
           /\ ov.overlay[X].kind = "file" /\ ov.before[X].kind = "file"
           /\ ov.before[X] # ov.overlay[X]
           /\ ov.repo[X] = ov.overlay[X]
           /\ ov.overlay[Z].kind = "file" /\ ov.before[<<Z[1]>>].kind = "none"
           /\ ov.repo[Z] = ov.overlay[Z]
           /\ ov.repo[<<Z[1]>>].kind = "dir"
           /\ ov.copied >= 2

JekyllRule(l) ==
    \/ l[Gemfile] # "none"
    \/ l[ConfigYml] # "none" /\ (l[RubyVersion] # "none" \/ l[GemfileLock] # "none")
PythonRule(l) ==
    \E n \in {RequirementsTxt, PyprojectToml, SetupPy, SetupCfg} : l[n] # "none"

TypeOf(i) == _detect_project_type(WorkingCopy(key(i)))
OriginOf(i) == repo_dir[key(i)].origin
\* invocation i has ended and every command it ran succeeded
EndedClean(i) == Ended(i) /\ LastCommandOk(i)

\* C12 (P4): a run on a python working copy whose requirements.txt cannot be
\* installed ends with a report that has ok = false and whose last step is
\* the requirements install with a non-zero exit (nothing is run after it).
C12_InstallFailureIsLast ==
    \A i \in Invocations :
        (/\ EndedClean(i)
         /\ TypeOf(i) = "python"
         /\ WorkingCopy(key(i))[RequirementsTxt] = "file"
         /\ OriginOf(i) \in BrokenRequirements) =>
            /\ Reported(i)
            /\ ~ReportOf(i).ok
            /\ LET st == ReportOf(i).steps
               IN  /\ st # <<>>
                   /\ st[Len(st)].name = "pip_install_requirements"
                   /\ st[Len(st)].exit # 0

\* C13 (P5): a run on a python working copy with no tests directory and no
\* test_*.py in its root, whose executed steps all succeed, returns ok = true
\* and a step log with the skip record pytest_skip_no_tests and no pytest
\* record.
C13_NoTestsIsRecorded ==
    \A i \in Invocations :
        (/\ EndedClean(i)
         /\ TypeOf(i) = "python"
         /\ ~_has_tests(WorkingCopy(key(i)))
         /\ OriginOf(i) \notin BrokenRequirements) =>
            /\ Reported(i)
            /\ ReportOf(i).ok
            /\ LET names == StepNames(ReportOf(i).steps)
               IN  /\ \E n \in 1..Len(names) : names[n] = "pytest_skip_no_tests"
                   /\ \A n \in 1..Len(names) : names[n] # "pytest"

\* C14 (P6): a run on a jekyll working copy whose commands succeed ends with
\* a report whose last step is assert_outputs; that step lists the missing
\* artifacts, has a non-zero exit exactly when the list is not empty, and the
\* report has ok = true exactly when the list is empty.
C14_AssertOutputsDecides ==
    \A i \in Invocations :
        (EndedClean(i) /\ TypeOf(i) = "jekyll") =>
            /\ Reported(i)
            /\ LET st == ReportOf(i).steps
               IN  /\ st # <<>>
                   /\ st[Len(st)].name = "assert_outputs"
                   /\ HasKey(st[Len(st)], "missing")
                   /\ (st[Len(st)].exit # 0) <=> (st[Len(st)].missing # <<>>)
                   /\ ReportOf(i).ok <=> (st[Len(st)].missing = <<>>)

\* C15: an optional phase is never left out silently: the report of a run on
\* a python working copy holds a test record or a skipped-test record and an
\* install record or a skipped-install record, and the report of a run on an
\* unknown-type working copy without .py files holds a record for the compile
\* check it did not execute.
C15_SkippedPhasesRecorded ==
    \A i \in Invocations :
        (EndedClean(i) /\ ~(OriginOf(i) \in BrokenRequirements)) =>
            /\ Reported(i)
            /\ LET names == StepNames(ReportOf(i).steps)
                   Has(set) == \E n \in 1..Len(names) : names[n] \in set
               IN  /\ TypeOf(i) = "python" =>
                          /\ Has({"pytest", "pytest_skip_no_tests"})
                          /\ Has({"pip_install_requirements", "pip_install_editable",
                                  "pip_install_skip"})
                   /\ TypeOf(i) = "unknown" /\ ~any_py(WorkingCopy(key(i))) =>
                          \E n \in 1..Len(names) : names[n] \notin UnknownPlanSteps

(***************************************************************************)
(* The key of a run                                                        *)
(***************************************************************************)
Alphanumerics ==
    {"a", "b", "c", "d", "e", "f", "g", "h", "i", "j", "k", "l", "m", "n", "o", "p", "q", "r", "s", "t", "u", "v", "w", "x", "y", "z"}
        \cup {"A", "B", "C", "D", "E", "F", "G", "H", "I", "J", "K", "L", "M", "N", "O", "P", "Q", "R", "S", "T", "U", "V", "W", "X", "Y", "Z"}
        \cup {"0", "1", "2", "3", "4", "5", "6", "7", "8", "9"}
SafeChars == Alphanumerics \cup {"-", "_"}
SafeKey(k) == k # <<>> /\ \A n \in 1..Len(k) : k[n] \in SafeChars

KeyReturned == call.phase = "returned" /\ call.fn = "key"
Derived == call.input.sandbox_key \in {None, EmptyStr}

\* C16: the key of a run, derived from any URL string or given explicitly,
\* is not empty and holds only alphanumerics, "-" and "_" (so that
\* ./_verify/<key> is a direct child of ./_verify)
C16_KeyIsSafe ==
    KeyReturned => SafeKey(call.result)

\* C17 (P7): the key derived from a URL the regular expression does not
\* parse is still not empty and holds only alphanumerics, "-" and "_"
C17_UnparsedUrlKeyIsSafe ==
    (KeyReturned /\ Derived /\ ~ReSearch(Strip(call.input.repo_url)).found) =>
        SafeKey(call.result)

\* C18: each of the three URL forms of a repository derives the key
\* Owner__Repo, for every host, owner and repository name
C18_FormsDeriveOwnerRepo ==
    (KeyReturned /\ Derived /\ call.input.form \in UrlForms) =>
        call.result = call.input.owner \o Underscores \o call.input.repo

(***************************************************************************)
(* Two invocations at once                                                 *)
(***************************************************************************)
Started(i) == pc[i] # "idle"
InRun(i) == pc[i] \in {"line138", "line140", "line142", "line143", "line148", "line149"}

C20_NoMutualExclusion ==
    \A i \in Invocations :
        /\ pc[i] \in {"idle", "raised", "returned"} =>
               \A a \in ConcInputs : ENABLED Invoke(i, a)
        /\ pc[i] = "line138" => ENABLED Detect(i)
        /\ pc[i] = "line140" => ENABLED RemoveRepoDir(i)
        /\ pc[i] = "line142" => ENABLED (\E o \in Outcomes : RunClone(i, o))
        /\ pc[i] = "line148" => ENABLED (\E o \in Outcomes : RunFetch(i, o))

\* both invocations found no repo/.git under the same key; inv2 has cloned,
\* inv1 has removed that clone and is about to clone into the same repo_dir
C20_Witness ==
    /\ pc["inv1"] = "line142" /\ pc["inv2"] = "line143"
    /\ key("inv1") = key("inv2")
    /\ r["inv2"].ok /\ cmds["inv2"] = <<"clone">>
    /\ repo_dir[key("inv1")].state = "absent"

(***************************************************************************)
(* The step log                                                            *)
(***************************************************************************)
\* C21: the steps of the report a run returns are exactly the records the
\* run appended, one for each command it ran, in the order it ran them (the
\* log only grows by appends, so the report holds them all).
C21_ReportHoldsAppendedRecords ==
    \A i \in Invocations :
        Ended(i) =>
            /\ Reported(i)
            /\ ReportOf(i).steps = steps[i]
            /\ StepNames(steps[i]) = cmds[i]

\* C22: a call with a missing or malformed repository URL fails as an input
\* error before any step: no external command is run, no step is recorded,
\* and the run ends with a report that has ok = false and no steps.
C22_MalformedUrlIsInputError ==
    \A i \in Invocations :
        (Started(i) /\ args[i].repo_url \in MalformedUrls) =>
            /\ cmds[i] = <<>>
            /\ steps[i] = <<>>
            /\ Ended(i) =>
                   /\ Reported(i)
                   /\ ~ReportOf(i).ok
                   /\ ReportOf(i).steps = <<>>

(***************************************************************************)
(* shell_run                                                               *)
(***************************************************************************)
ShellReturned == call.phase = "returned" /\ call.fn = "shell_run"

\* C23: shell_run never raises: whatever the command, the working directory
\* and the outcome (executable not found and timeout included) the call ends
\* with a dictionary that has the key ok, and ok is false whenever the
\* process did not exit with code 0.
C23_ShellRunNeverRaises ==
    ShellReturned =>
        /\ ~HasKey(call.result, "raised")
        /\ HasKey(call.result, "ok")
        /\ call.input.outcome # "exit0" => ~call.result.ok
        /\ call.input.outcome = "exit0" => call.result.ok

\* the executable was not found, or the process was killed by the timeout,
\* and the call has returned a dictionary
C23_Witness ==
    /\ ShellReturned
    /\ call.input.outcome \in {"notfound", "timeout"}
    /\ HasKey(call.result, "error")
    /\ ~call.result.ok

\* C24: every result of shell_run, on every outcome, has the keys the
\* orchestrator reads (ok, exit_code, stdout, stderr); on timeout the exit
\* code is 124.
C24_ResultHasFieldsRead ==
    ShellReturned =>
        /\ {"ok", "exit_code", "stdout", "stderr"} \subseteq DOMAIN call.result
        /\ call.input.outcome = "timeout" => call.result.exit_code = 124

\* C25: a stream of the result holds at most MAX_OUTPUT_CHARS characters of
\* the process: a longer stream is cut to its last MAX_OUTPUT_CHARS
\* characters behind a marker with the number dropped, a shorter one is
\* returned unchanged.
C25_StreamsCapped ==
    (ShellReturned /\ Completed(call.input.outcome)) =>
        \A f \in {"stdout", "stderr"} :
            LET given == IF f = "stdout" THEN call.input.out ELSE call.input.err
                got == IF f = "stdout" THEN call.result.stdout ELSE call.result.stderr
            IN  /\ got.chars <= MAX_OUTPUT_CHARS
                /\ given.chars <= MAX_OUTPUT_CHARS => got = given
                /\ given.chars > MAX_OUTPUT_CHARS =>
                       got = [chars |-> MAX_OUTPUT_CHARS,
                              dropped |-> given.chars - MAX_OUTPUT_CHARS]

\* C26: a process is started only for a working directory inside the allowed
\* root: a call with a working directory outside it starts no process and
\* returns a result that is not ok.
C26_CwdInsideAllowedRoot ==
    (ShellReturned /\ ~InsideAllowedRoot(call.input.cwd)) =>
        /\ ~ProcessStarted(call.input.outcome)
        /\ ~call.result.ok

(***************************************************************************)
(* The filesystem tools                                                    *)
(***************************************************************************)
\* C27: the filesystem tools never raise: a call that has ended has ended by
\* returning, its documented value or a string that begins with
\* "fs_<name> error:".
C27_FsToolsNeverRaise ==
    (call.fn \in FsTools /\ call.phase # "called") =>
        /\ call.phase # "raised"
        /\ call.exc = ""

(***************************************************************************)
(* Clone or fetch, checkout, and no retry                                  *)
(***************************************************************************)
Count(seq, x) == Cardinality({n \in 1..Len(seq) : seq[n] = x})

\* C28: in every run exactly one of clone and fetch is executed, as the
\* first command: clone when repo/.git is absent and fetch when it is there
\* (nothing changes that between the start of the run and the command), and
\* the run ends with no other command run, whether the clone or fetch failed
\* or not.
C28_CloneXorFetchFirst ==
    [][\A i \in Invocations :
          /\ (InRun(i) /\ cmds[i] = <<>> /\ cmds'[i] = <<>>) =>
                 (repo_dir'[key(i)].state \in {"partial", "clone"}) = HasDotGit(key(i))
          /\ (InRun(i) /\ cmds'[i] # cmds[i]) =>
                 cmds'[i] = IF HasDotGit(key(i)) THEN <<"fetch">> ELSE <<"clone">>
          /\ pc'[i] \in {"raised", "returned"} =>
                 cmds'[i] \in {<<"clone">>, <<"fetch">>}]_vars

\* a run on a cached working copy has run fetch, the fetch has failed, and
\* the run has ended there
C28_Witness ==
    /\ Ended("inv1")
    /\ cmds["inv1"] = <<"fetch">>
    /\ LastCommandFailed("inv1")
    /\ HasDotGit(key("inv1"))

\* C29: a run whose clone or fetch succeeded attempts the checkout of ref
\* once and the checkout of origin/ref at most once, and then either goes on
\* to reset_hard or ends with a report that has ok = false and whose steps
\* end in the checkout record followed by the checkout_origin record.
C29_CheckoutFallsBackOnce ==
    \A i \in Invocations :
        (Ended(i) /\ LastCommandOk(i)) =>
            /\ Count(cmds[i], "checkout") = 1
            /\ Count(cmds[i], "checkout_origin") <= 1
            /\ Reported(i)
            /\ LET names == StepNames(ReportOf(i).steps)
               IN  \/ Count(names, "reset_hard") = 1
                   \/ /\ ~ReportOf(i).ok
                      /\ Len(names) >= 2
                      /\ names[Len(names) - 1] = "checkout"
                      /\ names[Len(names)] = "checkout_origin"

\* C30: nothing is retried: within one invocation no external command is
\* run twice and no step name occurs twice in the step log.
C30_NoRetry ==
    \A i \in Invocations :
        /\ \A m, n \in 1..Len(cmds[i]) : cmds[i][m] = cmds[i][n] => m = n
        /\ \A m, n \in 1..Len(steps[i]) : steps[i][m].name = steps[i][n].name => m = n

\* a clone has failed and the run has ended with that one clone
C30_Witness ==
    /\ Ended("inv1")
    /\ LastCommandFailed("inv1")
    /\ cmds["inv1"] = <<"clone">>

(***************************************************************************)
(* The overlay step (lines 169-171) and the install and unknown plans      *)
(***************************************************************************)
\* C31: a call of _copy_overlay always returns, and what it returns is the
\* number of regular files in the overlay tree at any depth; with no overlay
\* directory it returns 0 and leaves the working copy as it was.
C31_OverlayCopyAlwaysSucceeds ==
    ov.phase \in {"returned", "raised"} =>
        /\ ov.phase = "returned"
        /\ ov.copied = Cardinality(FilesOf(ov.overlay))
        /\ ~ov.overlay_exists => ov.copied = 0 /\ ov.repo = ov.before

\* the install records of the python plan (lines 198-210)
InstallRecords == {"pip_install_requirements", "pip_install_editable", "pip_install_skip"}

\* C32: the report of a run on a python working copy holds exactly one
\* install record: the requirements install when requirements.txt is a file,
\* the editable install when it is not and pyproject.toml, setup.py or
\* setup.cfg is, the skip record otherwise.
C32_ExactlyOneInstallRecord ==
    \A i \in Invocations :
        (EndedClean(i) /\ TypeOf(i) = "python") =>
            /\ Reported(i)
            /\ LET names == StepNames(ReportOf(i).steps)
                   wc == WorkingCopy(key(i))
                   expected ==
                       IF wc[RequirementsTxt] = "file"
                       THEN "pip_install_requirements"
                       ELSE IF \E d \in {PyprojectToml, SetupPy, SetupCfg} : wc[d] = "file"
                            THEN "pip_install_editable"
                            ELSE "pip_install_skip"
               IN  /\ Count(names, expected) = 1
                   /\ \A n \in InstallRecords \ {expected} : Count(names, n) = 0

\* C33: the report of a run on an unknown-type working copy holds the
\* git_status record, holds the compileall_best_effort record exactly when a
\* .py file is in the root of the working copy, and holds no install record.
C33_UnknownPlanStatusAndCompile ==
    \A i \in Invocations :
        (EndedClean(i) /\ TypeOf(i) = "unknown") =>
            /\ Reported(i)
            /\ LET names == StepNames(ReportOf(i).steps)
               IN  /\ Count(names, "git_status") = 1
                   /\ (Count(names, "compileall_best_effort") = 1)
                          <=> any_py(WorkingCopy(key(i)))
                   /\ \A n \in InstallRecords \cup {"venv_create", "pip_upgrade",
                                                    "bundle_install"} :
                          Count(names, n) = 0

(***************************************************************************)
(* A run on a cached working copy (lines 138, 147-151)                     *)
(***************************************************************************)
\* C38: on a working copy that has a .git, the run leaves the working copy
\* with the remote it was cloned from, whatever repo_url it was called with,
\* and its fetch can succeed only when that remote can be reached: the
\* repo_url of the call decides neither.
C38_CachedCopyIgnoresUrl ==
    [][\A i \in Invocations :
          pc[i] \in {"line148", "line149"} =>
              /\ repo_dir'[key(i)] = repo_dir[key(i)]
              /\ cmds'[i] \in {cmds[i], <<"fetch">>}
              /\ (pc'[i] = "line149" /\ r'[i].ok) =>
                     repo_dir[key(i)].origin \in ReachableUrls]_vars

\* a run called with a URL that cannot be reached has fetched with success
\* from the reachable repository an earlier run cloned under the same key
C38_Witness ==
    /\ Ended("inv1")
    /\ cmds["inv1"] = <<"fetch">>
    /\ LastCommandOk("inv1")
    /\ args["inv1"].repo_url = UrlGone
    /\ repo_dir[key("inv1")] = [state |-> "clone", origin |-> UrlA]

(***************************************************************************)
(* MainAgent.message                                                       *)
(***************************************************************************)
\* the model that follows the model of this name in self.models, the first
\* one following the last
NextModel(name) ==
    LET n == CHOOSE k \in 1..Len(models) : models[k].model = name
    IN  models[(n % Len(models)) + 1].model
\* an agent invocation has just been made
Attempted == Len(main_agent'.invoked) = Len(main_agent.invoked) + 1
\* what it gave ends in an AIMessage with text and no invalid tool call
GoodOutput(res) ==
    /\ res.ai
    /\ ~res.invalid_tool_calls
    /\ IF res.content = None THEN FALSE ELSE Strip(res.content) # <<>>
\* one of the four RuntimeErrors message raises on a bad output
IsBadOutput(e) ==
    /\ e.type = "RuntimeError"
    /\ e.msg \in {MsgInvalidToolCall, MsgNoAIMessage, MsgEmptyText, MsgToolCallsNoText}
MatchesRetryMarker(e) == \E x \in retry_markers : Contains(Lower(e.msg), x)

\* C34: a call of message invokes the agent at most len(models) times and
\* then ends; a failed attempt is followed by one failover, so the next
\* attempt goes to the next model of the list; the first attempt whose output
\* has text makes the call return that text; and when every attempt has failed
\* over the call raises the last error.
C34_AtMostOneAttemptPerModel ==
    /\ [](/\ Len(main_agent.invoked) <= Len(models)
          /\ \A n \in 1..(Len(main_agent.invoked) - 1) :
                 main_agent.invoked[n + 1] = NextModel(main_agent.invoked[n])
          /\ main_agent.phase = "loop" =>
                 main_agent.failovers = Len(main_agent.invoked)
          /\ (main_agent.phase = "returned" /\ main_agent.invoked # <<>>) =>
                 /\ main_agent.failovers = Len(main_agent.invoked) - 1
                 /\ main_agent.result.kind = "text"
                 /\ main_agent.result.text # <<>>
          /\ (main_agent.phase = "raised"
                  /\ main_agent.failovers = Len(main_agent.invoked)) =>
                 /\ Len(main_agent.invoked) = Len(models)
                 /\ main_agent.result = Raised(main_agent.last_err))
    /\ [][(main_agent.phase = "loop" /\ Attempted) =>
              IF main_agent'.last_err = main_agent.last_err
                     /\ GoodOutput(main_agent'.last_res)
              THEN /\ main_agent'.phase = "returned"
                   /\ main_agent'.result = Answer(Strip(main_agent'.last_res.content))
              ELSE main_agent'.phase # "returned"]_vars
    /\ (main_agent.phase = "loop") ~> (main_agent.phase \in {"returned", "raised"})

\* every model has been tried and has failed, and the call has raised
C34_Witness ==
    /\ main_agent.phase = "raised"
    /\ Len(main_agent.invoked) = Len(models)
    /\ main_agent.failovers = Len(models)
    /\ main_agent.result.exc = RuntimeError(MsgEmptyText)

\* C35: an attempt that fails with an error that is none of the four
\* bad-output RuntimeErrors and matches no retry marker makes the call raise
\* that error at once: there is no failover, model_idx, model and agent stay
\* as they were, and the agent is not invoked again in this call.
C35_NonRetryableIsRaisedAtOnce ==
    [][/\ (/\ main_agent.phase = "loop"
           /\ Attempted
           /\ main_agent'.phase # "returned"
           /\ ~IsBadOutput(main_agent'.last_err)
           /\ ~MatchesRetryMarker(main_agent'.last_err)) =>
              /\ main_agent'.phase = "raised"
              /\ main_agent'.result = Raised(main_agent'.last_err)
              /\ main_agent'.failovers = main_agent.failovers
              /\ main_agent'.model_idx = main_agent.model_idx
              /\ main_agent'.model = main_agent.model
              /\ main_agent'.agent = main_agent.agent
       /\ main_agent.phase = "raised" =>
              \/ main_agent'.invoked = main_agent.invoked
              \/ main_agent'.invoked = <<>>]_vars

\* the first model has failed over, and the second has been refused the key:
\* the call has raised with the second model still the active one
C35_Witness ==
    /\ main_agent.phase = "raised"
    /\ Len(main_agent.invoked) = Len(models) - 1
    /\ main_agent.failovers = Len(main_agent.invoked) - 1
    /\ main_agent.last_err.msg = Msg401
    /\ main_agent.model = _make_llm(models[Len(models) - 1])

\* C36: model_idx is always an index of self.models, model and agent are
\* always the ones built from models[model_idx], and a failover moves
\* model_idx to (model_idx + 1) mod len(models).
C36_FailoverWrapsAround ==
    /\ [](/\ main_agent.model_idx \in 0..(Len(models) - 1)
          /\ main_agent.model.model = models[main_agent.model_idx + 1].model
          /\ main_agent.model.provider = models[main_agent.model_idx + 1].provider
          /\ main_agent.agent.model = main_agent.model)
    /\ [][main_agent'.failovers = main_agent.failovers + 1 =>
              main_agent'.model_idx = (main_agent.model_idx + 1) % Len(models)]_vars

\* a failover from the last model has made the first one active again
C36_Witness ==
    /\ main_agent.failovers = Len(models)
    /\ main_agent.model_idx = 0
    /\ main_agent.model = _make_llm(models[1])

(***************************************************************************)
(* telegram_get_response                                                   *)
(***************************************************************************)
\* C37: a text message of the chat that the server held, not yet returned,
\* when a call returned is not skipped: it is still held by the server for a
\* later call, or a later call has returned it.
C37_PendingUpdateNotSkipped ==
    \A n \in telegram.left_behind :
        \/ n \in IdsOf(telegram.pending)
        \/ n \in telegram.delivered

(***************************************************************************)
(* github_propose_change                                                   *)
(***************************************************************************)
\* the requests of a call in which nothing fails: the branch, a get and a put
\* for each change in the order of the list, the pull request
AllRequests(changes) ==
    <<Op("create_branch", "")>>
    \o [n \in 1..(2 * Len(changes)) |->
            IF n % 2 = 1
            THEN Op("get", changes[(n + 1) \div 2].path)
            ELSE Op("put", changes[n \div 2].path)]
    \o <<Op("create_pr", "")>>
IsPrefix(a, b) == Len(a) <= Len(b) /\ \A n \in 1..Len(a) : a[n] = b[n]
PathsOf(changes, n) == [k \in 1..n |-> changes[k].path]

\* C39: the requests of a call are the branch creation, then a get and a put
\* per change in list order, then the pull request; after a failed branch
\* creation nothing else is requested; after the first failed put nothing
\* else is requested; the pull request is requested only when every change
\* has been written; and a branch that exists already does not fail the call.
C39_BranchThenChangesThenPullRequest ==
    /\ IsPrefix(github.ops, AllRequests(github.changes))
    /\ HasKey(github.br, "error") =>
           /\ github.ops = <<Op("create_branch", "")>>
           /\ github.written = <<>>
           /\ ~github.created_pr
           /\ github.result = [error |-> "create_branch_failed"]
    /\ \A n \in 1..Len(github.results) :
           HasKey(github.results[n].result, "error") =>
               /\ n = Len(github.results)
               /\ github.ops[Len(github.ops)] = Op("put", github.changes[n].path)
               /\ github.written = PathsOf(github.changes, n - 1)
               /\ ~github.created_pr
               /\ github.result = [error |-> "put_file_failed"]
    /\ (github.ops # <<>> /\ github.ops[Len(github.ops)].op = "create_pr") =>
           /\ github.written = PathsOf(github.changes, Len(github.changes))
           /\ \A n \in 1..Len(github.results) :
                  ~HasKey(github.results[n].result, "error")
    /\ github.created_pr => github.ops = AllRequests(github.changes)
    /\ github.cr = Reply(422, AlreadyExists) =>
           /\ ~HasKey(github.br, "error")
           /\ github.result # [error |-> "create_branch_failed"]

\* on a branch that was there already, every change of the list has been
\* written and the pull request has been created
C39_Witness ==
    /\ github.cr = Reply(422, AlreadyExists)
    /\ github.result = [ok |-> TRUE]
    /\ github.created_pr
    /\ Len(github.written) = MaxChanges

====
